---- MODULE Spec2Model ----
(***************************************************************************)
(* A model of the deckd daemon (cvrt-jh/deckd): the page navigator, the    *)
(* broadcast bus, the event loop, the config watcher and the device        *)
(* session, each translated from the Rust source.                          *)
(***************************************************************************)
EXTENDS Integers, Sequences, FiniteSets, Bags, TLC

(***************************************************************************)
(* Bounds of the model.                                                    *)
(***************************************************************************)
\* the navigator's stack grows to at most this height in the model
MaxStack == 3
\* the longest navigate_to sequence quantified over in the round-trip law
MaxRoundTrip == 3
\* inputs the environment delivers in a run: device connections, input
\* reports and changes of the config file
MaxInputs == 3
\* the same for the runs that need one more input
LongInputs == 4
\* the same for the runs that overrun the bus
FloodInputs == 5
\* the same for the runs that follow the periodic tick
PollInputs == 2
\* the same for the runs that follow run() to its return
StopInputs == 2
\* the published events up to which the periodic tick is followed
MaxLog == 8

\* direct calls of render_button in a row
MaxRenders == 2
\* writes of icon files around them
MaxWrites == 2
\* the longest string over the whole alphabet given to parse_hex_color
MaxHexLen == 4
\* the longest string given to expand_env_vars
MaxEnvLen == 5

(***************************************************************************)
(* Page ids.                                                               *)
(***************************************************************************)
PageIds == {"home", "a", "b"}

Last(s) == s[Len(s)]

ButLast(s) == SubSeq(s, 1, Len(s) - 1)

\* all sequences over S of length 0..n
RECURSIVE SeqsUpTo(_, _)
SeqsUpTo(S, n) ==
    IF n = 0 THEN {<<>>}
    ELSE LET shorter == SeqsUpTo(S, n - 1)
         IN  shorter \cup {Append(s, x) : s \in {t \in shorter : Len(t) = n - 1}, x \in S}

(***************************************************************************)
(* PageManager (src/page/mod.rs).  A value of the struct is a record       *)
(* [stack, home_page].                                                     *)
(***************************************************************************)
PageManager_new(home) == [stack |-> <<home>>, home_page |-> home]

current_page(pm) ==
    IF Len(pm.stack) > 0 THEN Last(pm.stack) ELSE pm.home_page

navigate_to(pm, page_id) == [pm EXCEPT !.stack = Append(@, page_id)]

\* a go_back that pops whenever the stack is non-empty
go_back_pops_last(pm) ==
    IF Len(pm.stack) >= 1
    THEN [pm |-> [pm EXCEPT !.stack = ButLast(@)], ret |-> TRUE]
    ELSE [pm |-> pm, ret |-> FALSE]

\* returns the manager after the call and the call's return value
go_back(pm) ==
    IF Len(pm.stack) > 1
    THEN [pm |-> [pm EXCEPT !.stack = ButLast(@)], ret |-> TRUE]
    ELSE [pm |-> pm, ret |-> FALSE]

\* a go_home that pushes the home page
go_home_pushes(pm) == [pm EXCEPT !.stack = Append(@, pm.home_page)]

go_home(pm) == [pm EXCEPT !.stack = <<pm.home_page>>]

set_home_page(pm, home) == [pm EXCEPT !.home_page = home]

(***************************************************************************)
(* Configuration snapshots (src/config/schema.rs).  A snapshot is          *)
(* immutable; the daemon passes snapshots around by reference, modelled    *)
(* as an index into Snapshots.  A button's absent state_entity is "",      *)
(* its absent on_press has action "none", an absent label or color is "".  *)
(***************************************************************************)
\* a labelled button that takes all its colors from the defaults
Btn(key, entity, action, page) ==
    [key |-> key, state_entity |-> entity,
     on_press |-> [action |-> action, page |-> page],
     label |-> "label",
     background |-> "", on_background |-> "", text_color |-> "", on_text_color |-> ""]

\* the button with an on-state background and text color of its own
Lit(button) == [button EXCEPT !.on_background = "#00aa00", !.on_text_color = "#000000"]

\* deckd.defaults
Defaults == [background |-> "#1a1a2e", text_color |-> "#ffffff"]

\* the button with a background that is no hex color
Miscolored(button) == [button EXCEPT !.background = "blue"]

HomeButtons == <<Btn(0, "", "navigate", "b"), Lit(Btn(1, "light", "http", ""))>>

\* the startup file: home, a and b, with navigation between them
CfgFull ==
    [brightness |-> 80, reconnect_interval_ms |-> 2, home_page |-> "home",
     defaults |-> Defaults,
     pages |-> ("home" :> HomeButtons
             @@ "b" :> <<Btn(0, "", "back", ""), Btn(1, "", "navigate", "a")>>
             @@ "a" :> <<Btn(0, "", "home", ""), Btn(1, "", "navigate", "ghost")>>)]

\* page b removed, other default colors
CfgNoB ==
    [brightness |-> 50, reconnect_interval_ms |-> 1, home_page |-> "home",
     defaults |-> [background |-> "#0000aa", text_color |-> "#cccccc"],
     pages |-> ("home" :> HomeButtons
             @@ "a" :> <<Btn(0, "", "home", ""), Btn(1, "", "back", "")>>)]

\* another home page, page home removed
CfgHomeB ==
    [brightness |-> 100, reconnect_interval_ms |-> 2, home_page |-> "b",
     defaults |-> Defaults,
     pages |-> ("b" :> <<Btn(0, "", "shell", ""), Btn(1, "", "back", "")>>
             @@ "a" :> <<Btn(0, "", "home", "")>>)]

\* rejected by validate: brightness out of range
CfgTooBright == [CfgFull EXCEPT !.brightness = 101]

\* rejected by validate: a key index out of range
CfgBadKey == [CfgNoB EXCEPT !.pages["a"] = <<Btn(15, "", "home", "")>>]

\* accepted by validate, which does not look at colors: page home has two
\* further buttons, an entity-bound one without action at key 2 and one at
\* key 4 that does not render
CfgMiscolored ==
    [CfgFull EXCEPT !.pages["home"] =
        HomeButtons \o <<Lit(Btn(2, "light", "none", "")), Miscolored(Btn(4, "", "none", ""))>>]

\* accepted by validate, which does not look for the home page among the
\* pages
CfgNoHome == [CfgNoB EXCEPT !.home_page = "ghost"]

\* accepted by validate, which does not look for key indices used twice:
\* page home has two buttons at key 0 and two at key 1, each pair with
\* different colors, actions and entity bindings
CfgTwins ==
    [CfgFull EXCEPT !.pages["home"] =
        <<[Btn(0, "", "shell", "") EXCEPT !.background = "#aa0000"],
          [Lit(Btn(1, "light", "http", "")) EXCEPT !.background = "#0000aa"],
          [Lit(Btn(0, "light", "navigate", "a")) EXCEPT !.background = "#cccccc"],
          [Btn(1, "", "navigate", "b") EXCEPT !.background = "#aa0000"]>>]

Snapshots ==
    <<CfgFull, CfgNoB, CfgHomeB, CfgTooBright, CfgBadKey, CfgMiscolored, CfgNoHome, CfgTwins>>

SnapshotIds == 1..Len(Snapshots)

contains_key(cfg, page_id) == page_id \in DOMAIN Snapshots[cfg].pages

\* config::validate: Ok exactly when brightness <= 100 and every key <= 14
validate(c) ==
    /\ ~(c.brightness > 100)
    /\ \A p \in DOMAIN c.pages :
          \A i \in 1..Len(c.pages[p]) : ~(c.pages[p][i].key > 14)

\* the snapshots load can return
ValidIds == {i \in SnapshotIds : validate(Snapshots[i])}

(***************************************************************************)
(* The config file as the watcher finds it, and config::load.              *)
(***************************************************************************)
DiskToml(i) == [kind |-> "toml", cfg |-> i]

DiskBroken(kind) == [kind |-> kind, cfg |-> 0]

\* every content the file takes in the model
DiskContents ==
    {DiskToml(i) : i \in SnapshotIds}
        \cup {DiskBroken(k) : k \in {"missing", "unreadable", "syntax"}}

\* the contents that load accepts
ValidContents == {DiskToml(i) : i \in ValidIds}

\* a load that skips validation
load_unvalidated(file) ==
    IF file.kind = "missing" THEN [ok |-> FALSE, err |-> "ConfigNotFound", cfg |-> 0]
    ELSE IF file.kind = "unreadable" THEN [ok |-> FALSE, err |-> "Io", cfg |-> 0]
    ELSE IF file.kind = "syntax" THEN [ok |-> FALSE, err |-> "TomlParse", cfg |-> 0]
    ELSE [ok |-> TRUE, err |-> "", cfg |-> file.cfg]

load(file) ==
    IF file.kind = "missing" THEN [ok |-> FALSE, err |-> "ConfigNotFound", cfg |-> 0]
    ELSE IF file.kind = "unreadable" THEN [ok |-> FALSE, err |-> "Io", cfg |-> 0]
    ELSE IF file.kind = "syntax" THEN [ok |-> FALSE, err |-> "TomlParse", cfg |-> 0]
    ELSE IF ~validate(Snapshots[file.cfg]) THEN [ok |-> FALSE, err |-> "Config", cfg |-> 0]
    ELSE [ok |-> TRUE, err |-> "", cfg |-> file.cfg]

(***************************************************************************)
(* DeckEvent (src/event.rs).                                               *)
(***************************************************************************)
Ev(type, key, page, cfg) == [type |-> type, key |-> key, page |-> page, cfg |-> cfg]

ButtonDown(k) == Ev("ButtonDown", k, "", 0)
ButtonUp(k) == Ev("ButtonUp", k, "", 0)
DeviceConnected == Ev("DeviceConnected", 0, "", 0)
DeviceDisconnected == Ev("DeviceDisconnected", 0, "", 0)
ConfigReloaded(cfg) == Ev("ConfigReloaded", 0, "", cfg)
NavigateTo(page) == Ev("NavigateTo", 0, page, 0)
NavigateBack == Ev("NavigateBack", 0, "", 0)
NavigateHome == Ev("NavigateHome", 0, "", 0)
RenderAll == Ev("RenderAll", 0, "", 0)
RenderButton(k) == Ev("RenderButton", k, "", 0)
Shutdown == Ev("Shutdown", 0, "", 0)

(***************************************************************************)
(* The bus: tokio's broadcast channel with the event loop as its only      *)
(* receiver.  q holds the retained events the receiver has not received    *)
(* yet, missed counts the events overwritten before it received them, log  *)
(* is the history of all events published, in publish order.               *)
(***************************************************************************)
CHANNEL_CAPACITY == 64

EmptyBus == [q |-> <<>>, missed |-> 0, log |-> <<>>, subscribed |-> TRUE]

\* the channel before run() has subscribed: broadcast::channel's own
\* receiver is dropped at once
NoReceiver == [EmptyBus EXCEPT !.subscribed = FALSE]

\* tx.send(event): Err, and the event dropped, when there is no receiver
send(b, event) ==
    IF ~b.subscribed THEN [b EXCEPT !.log = Append(@, event)]
    ELSE IF Len(b.q) < CHANNEL_CAPACITY
    THEN [b EXCEPT !.q = Append(@, event), !.log = Append(@, event)]
    ELSE [b EXCEPT !.q = Append(Tail(@), event), !.missed = @ + 1, !.log = Append(@, event)]

RECURSIVE send_all(_, _)
send_all(b, events) ==
    IF events = <<>> THEN b ELSE send_all(send(b, Head(events)), Tail(events))

VARIABLES
    page_manager,   \* the PageManager owned by the event loop
    nav_ret,        \* what the last PageManager call returned: "unit", "true", "false"
    shared_config,  \* the config store: the index of the current snapshot
    bus,            \* the broadcast channel as the event loop's receiver sees it
    loop_pc,        \* run(): "spawned" before it subscribes, "running" in
                    \* the event loop, "stopped" after it,
                    \* waiting for the spawned tasks, or "returned"
    run_wait,       \* seconds run() has waited for the spawned tasks
    cancel,         \* the cancellation token
    last_event,     \* the event (or lag notification) the loop handled last
    rx_next,        \* the receiver's cursor: how many published events it is past
    last_states,    \* the entity cache: entity id -> "on" / "off", "" when absent
    cache_lock,     \* who holds the cache's mutex: "" nobody, "loop", "render"
    tasks,          \* the spawned action tasks in flight, a bag
    disk,           \* the config file's content
    notify_rx,      \* debounced change notifications the watcher has not taken yet
    watch_pc,       \* the watcher loop: "running" or "stopped"
    watch_thread,   \* the watcher's blocking thread: "setup", "alive" (it holds
                    \* the debouncer) or "ended"
    last_loaded,    \* the snapshot the last successful load returned
    dev_pc,         \* the device session: "discover", "store", "announce", "read",
                    \* "clear", "disconnected", "backoff" or "stopped"
    deck_handle,    \* the handle cell: "none" or "deck"
    reconnect_interval, \* DeviceManager's reconnect_interval, in time units
    dev_sleep,      \* time units the current backoff sleep has lasted
    dev_kind,       \* the kind of the connected device, "" before the first connect
    keys,           \* the pressed keys as of the last input report
    dev_busy,       \* the session's blocking call (discovery, read_input) is in flight
    renders,        \* the spawned render tasks in flight, a bag
    ha,             \* the external source: entity id -> its authoritative state
    display,        \* what the render task that finished last rendered and pushed
    rb_call,        \* the arguments of a direct render_button call
    rb_ret,         \* what that call returned
    fn_arg,         \* the argument of a direct call of another pure function
    fn_ret,         \* what that call returned, NoRet before it
    inputs_left     \* inputs the environment still delivers

navVars == <<page_manager, nav_ret>>
loopVars == <<shared_config, bus, loop_pc, cancel, run_wait, last_event, rx_next, last_states, cache_lock,
              tasks>>
watchVars == <<disk, notify_rx, watch_pc, watch_thread, last_loaded>>
devVars == <<dev_pc, deck_handle, reconnect_interval, dev_sleep, dev_kind, keys, dev_busy>>
renderVars == <<renders, ha, display, rb_call, rb_ret, fn_arg, fn_ret>>
vars == <<navVars, loopVars, watchVars, devVars, renderVars, inputs_left>>

(***************************************************************************)
(* The event loop (src/daemon.rs, run and handle_event).                   *)
(***************************************************************************)
Entities == {"light"}

Lagged(n) == Ev("Lagged", n, "", 0)

NoEvent == Ev("", 0, "", 0)

\* PageManager::button_for_key: the first button of the current page with
\* this key, as an index into the page's list; 0 when there is none
button_for_key(pm, cfg, key) ==
    IF ~contains_key(cfg, current_page(pm)) THEN 0
    ELSE LET buttons == Snapshots[cfg].pages[current_page(pm)]
             hits == {i \in 1..Len(buttons) : buttons[i].key = key}
         IN  IF hits = {} THEN 0
             ELSE CHOOSE i \in hits : \A j \in hits : i <= j

\* a render-all that polls with the cache locked
poll_lock_taken(held) == "render"

\* the cache's mutex as a render-all leaves it when it starts its poll:
\* the task calls lock() only after the poll has returned
poll_lock(held) == held

\* a flip that only ever switches on
flipped_on(current) == "on"

\* the optimistic flip of ButtonDown
flipped(current) == IF current = "on" THEN "off" ELSE "on"

(***************************************************************************)
(* Rendering (src/render/mod.rs) and the render tasks' data.  A color is   *)
(* a string; create_canvas and render_text fail on one that                *)
(* parse_hex_color rejects.  A map of entity states is a function on       *)
(* Entities with "" for an entity the map does not hold.                   *)
(***************************************************************************)
NUM_KEYS == 15

\* the colors in use that parse_hex_color accepts
HexColors == {"#1a1a2e", "#ffffff", "#000000", "#00aa00", "#aa0000", "#0000aa", "#cccccc"}

NoStates == [e \in Entities |-> ""]

\* render_button: the bound entity is in the map with state "on"
entity_on(button, entity_states) ==
    /\ button.state_entity # ""
    /\ entity_states[button.state_entity] = "on"

\* render_button: the background
pick_background(button, defaults, entity_states) ==
    IF entity_on(button, entity_states)
    THEN IF button.on_background # "" THEN button.on_background
         ELSE IF button.background # "" THEN button.background
         ELSE defaults.background
    ELSE IF button.background # "" THEN button.background ELSE defaults.background

\* a text color that follows the level the background came from
pick_text_color_coupled(button, defaults, entity_states) ==
    IF pick_background(button, defaults, entity_states) = button.on_background
    THEN IF button.on_text_color # "" THEN button.on_text_color ELSE defaults.text_color
    ELSE IF button.text_color # "" THEN button.text_color ELSE defaults.text_color

\* render_button: the text color
pick_text_color(button, defaults, entity_states) ==
    IF entity_on(button, entity_states)
    THEN IF button.on_text_color # "" THEN button.on_text_color
         ELSE IF button.text_color # "" THEN button.text_color
         ELSE defaults.text_color
    ELSE IF button.text_color # "" THEN button.text_color ELSE defaults.text_color

RenderErr == [ok |-> FALSE, bg |-> "", text_color |-> ""]

\* render_button: Err when the background, or the text color of a labelled
\* button, is no hex color; the embedded fonts load
render_button(button, defaults, entity_states) ==
    LET bg == pick_background(button, defaults, entity_states)
        text_color == pick_text_color(button, defaults, entity_states)
    IN  IF bg \notin HexColors THEN RenderErr
        ELSE IF button.label # "" /\ text_color \notin HexColors THEN RenderErr
        ELSE [ok |-> TRUE, bg |-> bg, text_color |-> text_color]

render_blank == [ok |-> TRUE, bg |-> "#000000", text_color |-> ""]

\* a lookup that returns the last button with the key index
find_button_last(buttons, key) ==
    LET hits == {i \in 1..Len(buttons) : buttons[i].key = key}
    IN  IF hits = {} THEN 0 ELSE CHOOSE i \in hits : \A j \in hits : i >= j

\* page.buttons.iter().find(|b| b.key == key): an index, 0 when none
find_button(buttons, key) ==
    LET hits == {i \in 1..Len(buttons) : buttons[i].key = key}
    IN  IF hits = {} THEN 0 ELSE CHOOSE i \in hits : \A j \in hits : i <= j

\* collect_state_entities
collect_state_entities(cfg, page_id) ==
    IF ~contains_key(cfg, page_id) THEN {}
    ELSE {Snapshots[cfg].pages[page_id][i].state_entity :
              i \in 1..Len(Snapshots[cfg].pages[page_id])} \ {""}

\* fetch_ha_states: nothing to ask for, or the token is absent or the lookup
\* fails (outcome "empty"), gives the empty map; else the source's states
fetch_ha_states(entities, outcome, source) ==
    IF entities = {} \/ outcome = "empty" THEN NoStates
    ELSE [e \in Entities |-> IF e \in entities THEN source[e] ELSE ""]

\* a render-all that leaves the cache alone
cache_kept(cache, fetched) == cache

\* cache.insert for every entry of the fetched map
cache_insert_all(cache, fetched) ==
    [e \in Entities |-> IF fetched[e] # "" THEN fetched[e] ELSE cache[e]]

\* what a render of a key slot gave: Ok with the colors of the image, or Err
Image(key, rendered, blank) ==
    [key |-> key, ok |-> rendered.ok, bg |-> rendered.bg, text_color |-> rendered.text_color,
     blank |-> blank]

\* a slot rendered with the defaults of whatever snapshot the store holds
\* by then
render_slot_rereading(cfg, page_id, entity_states, key) ==
    LET buttons == Snapshots[cfg].pages[page_id]
        i == find_button(buttons, key)
    IN  IF i # 0
        THEN Image(key, render_button(buttons[i], Snapshots[shared_config].defaults, entity_states),
                   FALSE)
        ELSE Image(key, render_blank, TRUE)

\* render_all_buttons, one turn of the loop over the key slots: the image
\* of the matching button, else of the blank tile, or the render's error
render_slot(cfg, page_id, entity_states, key) ==
    LET buttons == Snapshots[cfg].pages[page_id]
        i == find_button(buttons, key)
    IN  IF i # 0
        THEN Image(key, render_button(buttons[i], Snapshots[cfg].defaults, entity_states), FALSE)
        ELSE Image(key, render_blank, TRUE)

\* a render-all that gives up at the first slot whose render fails
render_images_strict(cfg, page_id, entity_states) ==
    LET slots == [n \in 1..NUM_KEYS |-> render_slot(cfg, page_id, entity_states, n - 1)]
        failed == {n \in 1..NUM_KEYS : ~slots[n].ok}
    IN  IF failed = {} THEN slots
        ELSE SubSeq(slots, 1, (CHOOSE n \in failed : \A m \in failed : n <= m) - 1)

\* render_all_buttons, the loop over the key slots: the images by ascending
\* key, a slot whose render fails left out
render_images(cfg, page_id, entity_states) ==
    SelectSeq([n \in 1..NUM_KEYS |-> render_slot(cfg, page_id, entity_states, n - 1)],
              LAMBDA image : image.ok)

\* a task that sets the images and leaves the flush out
push_ops_unflushed(images, failing) ==
    [n \in 1..Len(images) |->
        [op |-> "set_button_image", key |-> images[n].key, ok |-> images[n].key \notin failing]]

\* the calls a task makes on the device for its images: set_button_image
\* for each, whatever the calls before returned, then flush (key -1)
\* (failing: the keys whose call returns an error)
push_ops(images, failing) ==
    [n \in 1..(Len(images) + 1) |->
        IF n <= Len(images)
        THEN [op |-> "set_button_image", key |-> images[n].key, ok |-> images[n].key \notin failing]
        ELSE [op |-> "flush", key |-> -1, ok |-> -1 \notin failing]]

\* the render task ButtonDown spawns: render_single_button_with_states
SingleRender(cfg, page_id, i, key, states) ==
    [kind |-> "single", cfg |-> cfg, page |-> page_id, button |-> i, key |-> key,
     states |-> states, pc |-> "render"]

\* the render task RenderAll spawns: render_all_buttons, at its poll
AllRender(cfg, page_id) ==
    [kind |-> "all", cfg |-> cfg, page |-> page_id, button |-> 0, key |-> 0,
     states |-> NoStates, pc |-> "fetch"]

\* no direct call
NoCall == [button |-> Btn(0, "", "none", ""), defaults |-> Defaults, entity_states |-> NoStates]

\* a finished render task: what it rendered with (states), the cache as it
\* left it, the images it made, the handle cell as it found it ("" when it
\* did not come to load it) and its calls on the device
Display(t, states, cache, images, handle, ops) ==
    [kind |-> t.kind, cfg |-> t.cfg, page |-> t.page, key |-> t.key, states |-> states,
     cache |-> cache, images |-> images, handle |-> handle, ops |-> ops]

NoDisplay ==
    [kind |-> "", cfg |-> 0, page |-> "", key |-> 0, states |-> NoStates,
     cache |-> NoStates, images |-> <<>>, handle |-> "", ops |-> <<>>]

\* the action task spawned by ButtonDown, at its first step
ActionTask(button) ==
    [action |-> button.on_press.action, page |-> button.on_press.page,
     has_state |-> button.state_entity # "", pc |-> "execute", result |-> ""]

\* a reload that resets the stack before it updates the home id
reload_home_stale(pm, cfg) ==
    LET homed == set_home_page(pm, Snapshots[cfg].home_page)
    IN  IF ~contains_key(cfg, current_page(pm)) THEN set_home_page(go_home(pm), Snapshots[cfg].home_page) ELSE homed

\* ConfigReloaded: the navigator after set_home_page and the forced go_home
reload_navigator(pm, cfg) ==
    LET homed == set_home_page(pm, Snapshots[cfg].home_page)
    IN  IF ~contains_key(cfg, current_page(homed)) THEN go_home(homed) ELSE homed

\* handle_event(event) with the received event already taken off the bus (b)
handle_event(event, b) ==
    /\ last_event' = event
    /\ UNCHANGED nav_ret
    /\ CASE event.type = "ButtonDown" ->
              LET i == button_for_key(page_manager, shared_config, event.key)
                  button == Snapshots[shared_config].pages[current_page(page_manager)][i]
              IN  /\ IF i # 0 /\ button.state_entity # ""
                     THEN \* last_states.lock() returns, the flip, drop(cache)
                          /\ cache_lock = ""
                          /\ last_states' = [last_states EXCEPT ![button.state_entity] = flipped(@)]
                          /\ cache_lock' = ""
                     ELSE UNCHANGED <<last_states, cache_lock>>
                  /\ tasks' =
                        IF i # 0 /\ button.on_press.action # "none"
                        THEN tasks (+) SetToBag({ActionTask(button)})
                        ELSE tasks
                  /\ renders' =
                        IF i # 0 /\ button.state_entity # ""
                        THEN renders (+) SetToBag({SingleRender(shared_config,
                                current_page(page_manager), i, event.key, last_states')})
                        ELSE renders
                  /\ bus' = b
                  /\ UNCHANGED <<page_manager, shared_config, loop_pc, cancel, run_wait>>
         [] event.type = "DeviceConnected" ->
              /\ bus' = send(b, RenderAll)
              /\ UNCHANGED <<page_manager, shared_config, loop_pc, cancel, run_wait, last_states, cache_lock, tasks, renders>>
         [] event.type = "ConfigReloaded" ->
              /\ shared_config' = event.cfg
              /\ page_manager' = reload_navigator(page_manager, event.cfg)
              /\ bus' = send(b, RenderAll)
              /\ UNCHANGED <<loop_pc, cancel, run_wait, last_states, cache_lock, tasks, renders>>
         [] event.type = "NavigateTo" ->
              IF contains_key(shared_config, event.page)
              THEN /\ page_manager' = navigate_to(page_manager, event.page)
                   /\ bus' = send(b, RenderAll)
                   /\ UNCHANGED <<shared_config, loop_pc, cancel, run_wait, last_states, cache_lock, tasks, renders>>
              ELSE /\ bus' = b
                   /\ UNCHANGED <<page_manager, shared_config, loop_pc, cancel, run_wait, last_states, cache_lock, tasks, renders>>
         [] event.type = "NavigateBack" ->
              /\ page_manager' = go_back(page_manager).pm
              /\ bus' = IF go_back(page_manager).ret THEN send(b, RenderAll) ELSE b
              /\ UNCHANGED <<shared_config, loop_pc, cancel, run_wait, last_states, cache_lock, tasks, renders>>
         [] event.type = "NavigateHome" ->
              /\ page_manager' = go_home(page_manager)
              /\ bus' = send(b, RenderAll)
              /\ UNCHANGED <<shared_config, loop_pc, cancel, run_wait, last_states, cache_lock, tasks, renders>>
         [] event.type = "Shutdown" ->
              /\ cancel' = TRUE
              /\ loop_pc' = "stopped"
              /\ bus' = b
              /\ UNCHANGED <<page_manager, shared_config, run_wait, last_states, cache_lock, tasks, renders>>
         [] event.type = "RenderAll" ->
              /\ IF contains_key(shared_config, current_page(page_manager))
                 THEN /\ renders' = renders (+)
                            SetToBag({AllRender(shared_config, current_page(page_manager))})
                      /\ cache_lock' = poll_lock(cache_lock)
                 ELSE UNCHANGED <<renders, cache_lock>>
              /\ bus' = b
              /\ UNCHANGED <<page_manager, shared_config, loop_pc, cancel, run_wait, last_states, tasks>>
         [] OTHER ->
              \* ButtonUp and DeviceDisconnected do nothing; nothing publishes
              \* RenderButton
              /\ bus' = b
              /\ UNCHANGED <<page_manager, shared_config, loop_pc, cancel, run_wait, last_states, cache_lock, tasks, renders>>

\* a loop that leaves on every receive error
recv_error_breaks(err, pc) == "stopped"

\* the loop's arms for a receive error: continue on Lagged, break on Closed
after_recv_error(err, pc) == IF err = "Closed" THEN "stopped" ELSE pc

\* one turn of the loop's select on rx.recv(): a lag notification or an event
LoopRecv ==
    /\ loop_pc = "running"
    /\ IF bus.missed > 0
       THEN /\ bus' = [bus EXCEPT !.missed = 0]
            /\ last_event' = Lagged(bus.missed)
            /\ rx_next' = rx_next + bus.missed
            /\ loop_pc' = after_recv_error("Lagged", loop_pc)
            /\ UNCHANGED <<navVars, shared_config, cancel, run_wait, last_states, cache_lock, tasks, renders>>
       ELSE /\ bus.q # <<>>
            /\ rx_next' = rx_next + 1
            /\ handle_event(Head(bus.q), [bus EXCEPT !.q = Tail(@)])
    /\ UNCHANGED <<watchVars, devVars, inputs_left>>
    /\ UNCHANGED <<ha, display, rb_call, rb_ret, fn_arg, fn_ret>>

\* the select's ctrl_c branch
LoopCtrlC ==
    /\ loop_pc = "running"
    /\ cancel' = TRUE
    /\ loop_pc' = "stopped"
    /\ UNCHANGED <<navVars, shared_config, bus, run_wait, last_event, rx_next, last_states, cache_lock, tasks>>
    /\ UNCHANGED <<watchVars, devVars, inputs_left>>
    /\ UNCHANGED renderVars

(***************************************************************************)
(* The action task spawned by ButtonDown (src/daemon.rs, lines 191-200,    *)
(* and action::execute).                                                   *)
(***************************************************************************)
\* an execute that publishes nothing for a navigate action
execute_drops_navigate(action, page) ==
    IF action = "back" THEN <<NavigateBack>>
    ELSE IF action = "home" THEN <<NavigateHome>>
    ELSE <<>>

\* an execute that publishes a press of key 0 for whatever it publishes
execute_presses_again(action, page) ==
    IF action \in {"navigate", "back", "home"} THEN <<ButtonDown(0)>> ELSE <<>>

\* what action::execute publishes
execute_events(action, page) ==
    IF action = "navigate" THEN <<NavigateTo(page)>>
    ELSE IF action = "back" THEN <<NavigateBack>>
    ELSE IF action = "home" THEN <<NavigateHome>>
    ELSE <<>>

\* what execute can return: an HTTP or shell action can fail
execute_results(action) == IF action \in {"http", "shell"} THEN {"Ok", "Err"} ELSE {"Ok"}

\* execute(action) returns, Ok or Err
TaskExecute ==
    /\ \E t \in BagToSet(tasks) :
          /\ t.pc = "execute"
          /\ bus' = send_all(bus, execute_events(t.action, t.page))
          /\ \E result \in execute_results(t.action) :
                tasks' = IF t.has_state
                         THEN (tasks (-) SetToBag({t}))
                                  (+) SetToBag({[t EXCEPT !.pc = "settle", !.result = result]})
                         ELSE tasks (-) SetToBag({t})
    /\ UNCHANGED <<navVars, shared_config, loop_pc, cancel, run_wait, last_event, rx_next, last_states, cache_lock>>
    /\ UNCHANGED <<watchVars, devVars, inputs_left>>
    /\ UNCHANGED renderVars

\* a task that asks for the re-render only after a successful action
settle_events_on_success(has_state, result) ==
    IF has_state /\ result = "Ok" THEN <<RenderAll>> ELSE <<>>

\* what the task publishes after execute returned: if has_state, RenderAll
settle_events(has_state, result) == IF has_state THEN <<RenderAll>> ELSE <<>>

\* the settle delay is over: tx.send(RenderAll)
TaskSettle ==
    /\ \E t \in BagToSet(tasks) :
          /\ t.pc = "settle"
          /\ bus' = send_all(bus, settle_events(t.has_state, t.result))
          /\ tasks' = tasks (-) SetToBag({t})
    /\ UNCHANGED <<navVars, shared_config, loop_pc, cancel, run_wait, last_event, rx_next, last_states, cache_lock>>
    /\ UNCHANGED <<watchVars, devVars, inputs_left>>
    /\ UNCHANGED renderVars

(***************************************************************************)
(* The periodic tick of the loop's select (src/daemon.rs, lines 62-73).    *)
(***************************************************************************)
TickTurn == Ev("Tick", 0, "", 0)

\* the current page is in the snapshot and has an entity-bound button
has_stateful(pm, cfg) ==
    /\ contains_key(cfg, current_page(pm))
    /\ \E i \in 1..Len(Snapshots[cfg].pages[current_page(pm)]) :
          Snapshots[cfg].pages[current_page(pm)][i].state_entity # ""

\* the 5 s period is long against a turn of the loop and against the poll's
\* 3 s timeout: a tick finds no RenderAll waiting and no render-all running
tick_due ==
    /\ \A n \in 1..Len(bus.q) : bus.q[n] # RenderAll
    /\ \A t \in BagToSet(renders) : t.kind # "all"

\* a tick that re-renders whatever the page holds
tick_events_always(pm, cfg) == <<RenderAll>>

\* what a tick publishes
tick_events(pm, cfg) == IF has_stateful(pm, cfg) THEN <<RenderAll>> ELSE <<>>

\* the select's state_poll.tick() branch
LoopTick ==
    /\ loop_pc = "running"
    /\ tick_due
    /\ bus' = send_all(bus, tick_events(page_manager, shared_config))
    /\ last_event' = TickTurn
    /\ UNCHANGED <<navVars, shared_config, loop_pc, cancel, run_wait, rx_next, last_states, cache_lock, tasks>>
    /\ UNCHANGED <<watchVars, devVars, inputs_left>>
    /\ UNCHANGED renderVars

(***************************************************************************)
(* The external source of entity states, and the render tasks              *)
(* (src/daemon.rs, render_single_button_with_states and                    *)
(* render_all_buttons).                                                    *)
(***************************************************************************)
\* an entity changes its state at the source
HaChange ==
    /\ inputs_left > 0
    /\ inputs_left' = inputs_left - 1
    /\ \E e \in Entities : ha' = [ha EXCEPT ![e] = IF @ = "on" THEN "off" ELSE "on"]
    /\ UNCHANGED <<navVars, loopVars, watchVars, devVars>>
    /\ UNCHANGED <<renders, display, rb_call, rb_ret, fn_arg, fn_ret>>

\* the sets of device calls that may fail
PushFailures == {{}, {1, -1}}

\* render_single_button_with_states runs: render with the states it was
\* given, load the handle cell, set the image and flush
\* (failures: the sets of device calls that may fail)
RenderSingle(failures) ==
    /\ \E t \in BagToSet(renders) :
          /\ t.kind = "single"
          /\ renders' = renders (-) SetToBag({t})
          /\ LET rendered == render_button(Snapshots[t.cfg].pages[t.page][t.button],
                                            Snapshots[t.cfg].defaults, t.states)
                 images == IF rendered.ok THEN <<Image(t.key, rendered, FALSE)>> ELSE <<>>
             IN  IF rendered.ok /\ deck_handle = "deck"
                 THEN \E failing \in failures :
                         display' = Display(t, t.states, last_states, images, deck_handle,
                                            push_ops(images, failing))
                 ELSE display' = Display(t, t.states, last_states, images,
                                         IF rendered.ok THEN deck_handle ELSE "", <<>>)
    /\ UNCHANGED <<navVars, loopVars, watchVars, devVars, inputs_left>>
    /\ UNCHANGED <<ha, rb_call, rb_ret, fn_arg, fn_ret>>

\* render_all_buttons: fetch_ha_states returns
\* (outcomes: "ok" the source answers, "empty" no token or the lookup fails)
RenderFetch(outcomes) ==
    /\ \E t \in BagToSet(renders) :
          /\ t.kind = "all"
          /\ t.pc = "fetch"
          /\ \E outcome \in outcomes :
                renders' = (renders (-) SetToBag({t})) (+) SetToBag({
                    [t EXCEPT !.pc = "render",
                              !.states = fetch_ha_states(collect_state_entities(t.cfg, t.page),
                                                         outcome, ha)]})
    /\ UNCHANGED <<navVars, loopVars, watchVars, devVars, inputs_left>>
    /\ UNCHANGED <<ha, display, rb_call, rb_ret, fn_arg, fn_ret>>

\* the states render_all_buttons hands to render_button: the fetched map
render_states(cache, fetched) == fetched

\* render_all_buttons after the poll: update the cache, render the 15 slots,
\* load the handle cell, set the images and flush
\* (failures: the sets of device calls that may fail)
RenderAllFinish(failures) ==
    /\ \E t \in BagToSet(renders) :
          /\ t.kind = "all"
          /\ t.pc = "render"
          /\ renders' = renders (-) SetToBag({t})
          \* state_cache.lock() returns, the inserts, the guard is dropped
          /\ cache_lock = ""
          /\ last_states' = cache_insert_all(last_states, t.states)
          /\ cache_lock' = ""
          /\ \E images \in {render_images(t.cfg, t.page, render_states(last_states, t.states))} :
                IF deck_handle = "deck"
                THEN \E failing \in failures :
                        display' = Display(t, render_states(last_states, t.states), last_states',
                                           images, deck_handle, push_ops(images, failing))
                ELSE display' = Display(t, render_states(last_states, t.states), last_states',
                                        images, deck_handle, <<>>)
    /\ UNCHANGED <<navVars, shared_config, bus, loop_pc, cancel, run_wait, last_event, rx_next, tasks>>
    /\ UNCHANGED <<watchVars, devVars, inputs_left>>
    /\ UNCHANGED <<ha, rb_call, rb_ret, fn_arg, fn_ret>>

(***************************************************************************)
(* The config watcher (src/config/watcher.rs).                             *)
(***************************************************************************)
NOTIFY_CAPACITY == 16

\* the file changes and the debouncer sends one notification
\* (contents: what the file may change to)
FileChange(contents) ==
    /\ inputs_left > 0
    /\ inputs_left' = inputs_left - 1
    /\ watch_thread = "alive"
    /\ notify_rx < NOTIFY_CAPACITY
    /\ \E file \in contents : disk' = file
    /\ notify_rx' = notify_rx + 1
    /\ UNCHANGED <<navVars, loopVars, watch_pc, watch_thread, last_loaded, devVars>>
    /\ UNCHANGED renderVars

\* a watcher that publishes whatever parses, validated or not
reload_events_unvalidated(file) ==
    IF load_unvalidated(file).ok THEN <<ConfigReloaded(load_unvalidated(file).cfg)>> ELSE <<>>

\* what the watcher publishes for the file it finds
reload_events(file) ==
    IF load(file).ok THEN <<ConfigReloaded(load(file).cfg)>> ELSE <<>>

\* the select's notify_rx.recv() branch
WatchReload ==
    /\ watch_pc = "running"
    /\ notify_rx > 0
    /\ notify_rx' = notify_rx - 1
    /\ bus' = send_all(bus, reload_events(disk))
    /\ last_loaded' = IF load(disk).ok THEN load(disk).cfg ELSE last_loaded
    /\ UNCHANGED <<navVars, shared_config, loop_pc, cancel, run_wait, last_event, rx_next, last_states, cache_lock, tasks>>
    /\ UNCHANGED <<disk, watch_pc, watch_thread, devVars, inputs_left>>
    /\ UNCHANGED renderVars

\* the select's cancel.cancelled() branch
WatchCancelled ==
    /\ watch_pc = "running"
    /\ cancel
    /\ watch_pc' = "stopped"
    /\ UNCHANGED <<navVars, loopVars, disk, notify_rx, watch_thread, last_loaded, devVars, inputs_left>>
    /\ UNCHANGED renderVars

\* the blocking thread: new_debouncer and watch() return Ok, the thread
\* enters loop { sleep(1 s) }, which has no exit and reads no token
ThreadWatchOk ==
    /\ watch_thread = "setup"
    /\ watch_thread' = "alive"
    /\ UNCHANGED <<navVars, loopVars, disk, notify_rx, watch_pc, last_loaded, devVars, inputs_left>>
    /\ UNCHANGED renderVars

\* the blocking thread: new_debouncer or watch() fails, the closure returns
ThreadWatchErr ==
    /\ watch_thread = "setup"
    /\ watch_thread' = "ended"
    /\ UNCHANGED <<navVars, loopVars, disk, notify_rx, watch_pc, last_loaded, devVars, inputs_left>>
    /\ UNCHANGED renderVars

(***************************************************************************)
(* The device session (src/device/mod.rs, DeviceManager::run) and its read *)
(* loop (src/device/input.rs).                                             *)
(***************************************************************************)
\* the keys of the device kinds the transport library connects to
KeyCount == [Pedal |-> 3, Mini |-> 6, Mk2 |-> 15, Xl |-> 32]

\* the keys that have a button on some page
PressKeys == {0, 1}

\* the reports of a user who holds at most one key at a time
OneKeyReports == {{}} \cup {{k} : k \in PressKeys}

\* the reports of a user who holds any of the keys together
AnyReports == SUBSET PressKeys

DiscoverResults == {"Ok", "NoDevice", "Hid", "Device"}

\* the loop's is_cancelled() check
DevCancelled ==
    /\ dev_pc = "discover"
    /\ ~dev_busy
    /\ cancel
    /\ dev_pc' = "stopped"
    /\ UNCHANGED <<deck_handle, reconnect_interval, dev_sleep, dev_kind, keys, dev_busy>>
    /\ UNCHANGED <<navVars, loopVars, watchVars, inputs_left>>
    /\ UNCHANGED renderVars

\* the is_cancelled() check passes and discover_and_connect() is called; the
\* token can be cancelled while the call blocks
DevDiscoverStart ==
    /\ dev_pc = "discover"
    /\ ~dev_busy
    /\ ~cancel
    /\ dev_busy' = TRUE
    /\ UNCHANGED <<dev_pc, deck_handle, reconnect_interval, dev_sleep, dev_kind, keys>>
    /\ UNCHANGED <<navVars, loopVars, watchVars, inputs_left>>
    /\ UNCHANGED renderVars

\* discover_and_connect() returns a device, called in this step or before
\* (attached: the kinds of device the enumeration may list first)
DevDiscoverOk(attached) ==
    /\ dev_pc = "discover"
    /\ dev_busy \/ ~cancel
    /\ inputs_left > 0
    /\ inputs_left' = inputs_left - 1
    /\ \E kind \in attached : dev_kind' = kind
    /\ dev_pc' = "store"
    /\ dev_busy' = FALSE
    /\ UNCHANGED <<deck_handle, reconnect_interval, dev_sleep, keys>>
    /\ UNCHANGED <<navVars, loopVars, watchVars>>
    /\ UNCHANGED renderVars

\* a session that returns the discovery error instead of retrying
discover_error_ends_session ==
    /\ dev_pc = "discover"
    /\ ~cancel
    /\ dev_pc' = "stopped"
    /\ UNCHANGED <<deck_handle, reconnect_interval, dev_sleep, dev_kind, keys, dev_busy>>
    /\ UNCHANGED <<navVars, loopVars, watchVars, inputs_left>>
    /\ UNCHANGED renderVars

\* discover_and_connect() fails: no device, or the HID or connect call failed
DevDiscoverErr ==
    /\ dev_pc = "discover"
    /\ dev_busy \/ ~cancel
    /\ \E r \in DiscoverResults \ {"Ok"} : dev_pc' = "backoff"
    /\ dev_sleep' = 0
    /\ dev_busy' = FALSE
    /\ UNCHANGED <<deck_handle, reconnect_interval, dev_kind, keys>>
    /\ UNCHANGED <<navVars, loopVars, watchVars, inputs_left>>
    /\ UNCHANGED renderVars

\* self.handle.store(Some(deck))
DevStore ==
    /\ dev_pc = "store"
    /\ deck_handle' = "deck"
    /\ dev_pc' = "announce"
    /\ UNCHANGED <<reconnect_interval, dev_sleep, dev_kind, keys, dev_busy>>
    /\ UNCHANGED <<navVars, loopVars, watchVars, inputs_left>>
    /\ UNCHANGED renderVars

\* tx.send(DeviceConnected), then the read loop starts
DevAnnounce ==
    /\ dev_pc = "announce"
    /\ bus' = send(bus, DeviceConnected)
    /\ dev_pc' = "read"
    /\ UNCHANGED <<deck_handle, reconnect_interval, dev_sleep, dev_kind, keys, dev_busy>>
    /\ UNCHANGED <<navVars, shared_config, loop_pc, cancel, run_wait, last_event, rx_next, last_states, cache_lock, tasks>>
    /\ UNCHANGED <<watchVars, inputs_left>>
    /\ UNCHANGED renderVars

\* a read loop that publishes only for the keys whose state changed
report_events_changed(pressed, before, key_count) ==
    LET changed == {k \in 0..(key_count - 1) : (k \in pressed) # (k \in before)}
        RECURSIVE from(_)
        from(k) ==
            IF k >= key_count THEN <<>>
            ELSE IF k \in changed
                 THEN <<IF k \in pressed THEN ButtonDown(k) ELSE ButtonUp(k)>> \o from(k + 1)
                 ELSE from(k + 1)
    IN  from(0)

\* the events the read loop publishes for one ButtonStateChange report: one
\* per entry of the report, in index order (before: the keys pressed as of
\* the report before, which the loop does not keep)
report_events(pressed, before, key_count) ==
    [idx \in 1..key_count |->
        IF (idx - 1) \in pressed THEN ButtonDown(idx - 1) ELSE ButtonUp(idx - 1)]

\* the read loop's is_cancelled() check passes and read_input(60.0) is called;
\* the token can be cancelled while the call blocks
DevReadStart ==
    /\ dev_pc = "read"
    /\ ~dev_busy
    /\ ~cancel
    /\ dev_busy' = TRUE
    /\ UNCHANGED <<dev_pc, deck_handle, reconnect_interval, dev_sleep, dev_kind, keys>>
    /\ UNCHANGED <<navVars, loopVars, watchVars, inputs_left>>
    /\ UNCHANGED renderVars

\* a read_input that was called before returns NoData when its poll period
\* is over
DevReadNoData ==
    /\ dev_pc = "read"
    /\ dev_busy
    /\ dev_busy' = FALSE
    /\ UNCHANGED <<dev_pc, deck_handle, reconnect_interval, dev_sleep, dev_kind, keys>>
    /\ UNCHANGED <<navVars, loopVars, watchVars, inputs_left>>
    /\ UNCHANGED renderVars

\* read_input returns ButtonStateChange(buttons): the device reports the state
\* of all its keys when a key goes down or up
\* (reports: the sets of pressed keys the device may report)
DevReadInput(reports) ==
    /\ dev_pc = "read"
    /\ dev_busy \/ ~cancel
    /\ inputs_left > 0
    /\ inputs_left' = inputs_left - 1
    /\ \E pressed \in reports :
          /\ pressed # keys
          /\ keys' = pressed
          /\ bus' = send_all(bus, report_events(pressed, keys, KeyCount[dev_kind]))
    /\ dev_busy' = FALSE
    /\ UNCHANGED <<dev_pc, deck_handle, reconnect_interval, dev_sleep, dev_kind>>
    /\ UNCHANGED <<navVars, shared_config, loop_pc, cancel, run_wait, last_event, rx_next, last_states, cache_lock, tasks>>
    /\ UNCHANGED <<watchVars>>
    /\ UNCHANGED renderVars

\* read_input returns an error: read_input_loop returns Err
DevReadError ==
    /\ dev_pc = "read"
    /\ dev_busy \/ ~cancel
    /\ dev_pc' = "clear"
    /\ dev_busy' = FALSE
    /\ UNCHANGED <<deck_handle, reconnect_interval, dev_sleep, dev_kind, keys>>
    /\ UNCHANGED <<navVars, loopVars, watchVars, inputs_left>>
    /\ UNCHANGED renderVars

\* the read loop sees the cancellation and returns Ok; the select after it
\* takes its cancelled branch
DevReadCancelled ==
    /\ dev_pc = "read"
    /\ ~dev_busy
    /\ cancel
    /\ dev_pc' = "stopped"
    /\ UNCHANGED <<deck_handle, reconnect_interval, dev_sleep, dev_kind, keys, dev_busy>>
    /\ UNCHANGED <<navVars, loopVars, watchVars, inputs_left>>
    /\ UNCHANGED renderVars

\* self.handle.store(None)
DevClear ==
    /\ dev_pc = "clear"
    /\ deck_handle' = "none"
    /\ dev_pc' = "disconnected"
    /\ UNCHANGED <<reconnect_interval, dev_sleep, dev_kind, keys, dev_busy>>
    /\ UNCHANGED <<navVars, loopVars, watchVars, inputs_left>>
    /\ UNCHANGED renderVars

\* tx.send(DeviceDisconnected), then the backoff sleep starts
DevDisconnected ==
    /\ dev_pc = "disconnected"
    /\ bus' = send(bus, DeviceDisconnected)
    /\ dev_pc' = "backoff"
    /\ dev_sleep' = 0
    /\ UNCHANGED <<deck_handle, reconnect_interval, dev_kind, keys, dev_busy>>
    /\ UNCHANGED <<navVars, shared_config, loop_pc, cancel, run_wait, last_event, rx_next, last_states, cache_lock, tasks>>
    /\ UNCHANGED <<watchVars, inputs_left>>
    /\ UNCHANGED renderVars

\* time passes during the backoff sleep
DevSleep ==
    /\ dev_pc = "backoff"
    /\ dev_sleep < reconnect_interval
    /\ dev_sleep' = dev_sleep + 1
    /\ UNCHANGED <<dev_pc, deck_handle, reconnect_interval, dev_kind, keys, dev_busy>>
    /\ UNCHANGED <<navVars, loopVars, watchVars, inputs_left>>
    /\ UNCHANGED renderVars

\* a sleep that is over at once
sleep_elapsed_at_once(slept, interval) == TRUE

\* tokio::time::sleep(interval) is ready
sleep_elapsed(slept, interval) == slept >= interval

\* the select's sleep branch
DevBackoffElapsed ==
    /\ dev_pc = "backoff"
    /\ sleep_elapsed(dev_sleep, reconnect_interval)
    /\ dev_pc' = "discover"
    /\ UNCHANGED <<deck_handle, reconnect_interval, dev_sleep, dev_kind, keys, dev_busy>>
    /\ UNCHANGED <<navVars, loopVars, watchVars, inputs_left>>
    /\ UNCHANGED renderVars

\* a wait that notices the cancellation only when the sleep is over
backoff_ignores_cancel ==
    /\ dev_pc = "backoff"
    /\ cancel
    /\ sleep_elapsed(dev_sleep, reconnect_interval)
    /\ dev_pc' = "stopped"
    /\ UNCHANGED <<deck_handle, reconnect_interval, dev_sleep, dev_kind, keys, dev_busy>>
    /\ UNCHANGED <<navVars, loopVars, watchVars, inputs_left>>
    /\ UNCHANGED renderVars

\* the select's cancelled branch
DevBackoffCancelled ==
    /\ dev_pc = "backoff"
    /\ cancel
    /\ dev_pc' = "stopped"
    /\ UNCHANGED <<deck_handle, reconnect_interval, dev_sleep, dev_kind, keys, dev_busy>>
    /\ UNCHANGED <<navVars, loopVars, watchVars, inputs_left>>
    /\ UNCHANGED renderVars

(***************************************************************************)
(* The daemon as run() leaves it when the event loop starts: the startup   *)
(* file is CfgFull, the device session and the watcher are spawned.        *)
(***************************************************************************)
StartCfg == 1

\* no direct call returned yet
NoRet == [kind |-> "none"]

\* everything but the navigator, for the place run() is at ("spawned":
\* the device session and the watcher are spawned, the loop's receiver is
\* not subscribed yet), a startup file, a source state, the argument of
\* the direct calls and what they have returned so far
\* (thread: where the watcher's blocking thread is)
InitThread(thread, pc, start, source, inputs, arg, ret) ==
    /\ nav_ret = "unit"
    /\ shared_config = start
    /\ bus = IF pc = "spawned" THEN NoReceiver ELSE EmptyBus
    /\ loop_pc = pc
    /\ cancel = FALSE
    /\ run_wait = 0
    /\ last_event = NoEvent
    /\ rx_next = 0
    /\ last_states = [e \in Entities |-> ""]
    /\ cache_lock = ""
    /\ tasks = EmptyBag
    /\ disk = DiskToml(start)
    /\ notify_rx = 0
    /\ watch_pc = "running"
    /\ watch_thread = thread
    /\ last_loaded = start
    /\ dev_pc = "discover"
    /\ deck_handle = "none"
    /\ reconnect_interval = Snapshots[start].reconnect_interval_ms
    /\ dev_sleep = 0
    /\ dev_kind = ""
    /\ keys = {}
    /\ dev_busy = FALSE
    /\ renders = EmptyBag
    /\ ha = source
    /\ display = NoDisplay
    /\ rb_call = NoCall
    /\ rb_ret = RenderErr
    /\ fn_arg = arg
    /\ fn_ret = ret
    /\ inputs_left = inputs

\* the same with the watcher's thread holding the debouncer
InitAt(pc, start, source, inputs, arg, ret) ==
    InitThread("alive", pc, start, source, inputs, arg, ret)

\* the same when the event loop starts
InitState(start, source, inputs, arg, ret) ==
    InitAt("running", start, source, inputs, arg, ret)

InitFrom(start, source, inputs) == InitState(start, source, inputs, <<>>, NoRet)

\* the entities are off at the source
SourceOff == [e \in Entities |-> "off"]

InitRest(inputs) == InitFrom(StartCfg, SourceOff, inputs)

InitWith(inputs) ==
    /\ page_manager = PageManager_new(Snapshots[StartCfg].home_page)
    /\ InitRest(inputs)

(***************************************************************************)
(* Spec: the event loop with its action tasks and the config watcher,      *)
(* fed by a device that stays connected and a user who holds one key at a  *)
(* time.                                                                   *)
(***************************************************************************)
Init == InitWith(MaxInputs)

Next ==
    \/ DevDiscoverOk({"Pedal"}) \/ DevStore \/ DevAnnounce \/ DevReadInput(OneKeyReports)
    \/ LoopRecv \/ TaskExecute \/ TaskSettle
    \/ FileChange(ValidContents) \/ WatchReload

Spec == Init /\ [][Next]_vars

\* the same with one more input
SpecLong == InitWith(LongInputs) /\ [][Next]_vars

(***************************************************************************)
(* SpecFair: Spec with the scheduling the runtime guarantees: the event    *)
(* loop takes a pending event, a spawned task runs.                        *)
(***************************************************************************)
SpecFair ==
    /\ Spec
    /\ WF_vars(LoopRecv)
    /\ WF_vars(TaskExecute)
    /\ WF_vars(TaskSettle)

(***************************************************************************)
(* SpecFlood: a 32-key device whose reports overrun the bus while a        *)
(* reload is pending.  Key 2 has no button on any page.                    *)
(***************************************************************************)
FloodNext ==
    \/ DevDiscoverOk({"Xl"}) \/ DevStore \/ DevAnnounce \/ DevReadInput({{}, {2}})
    \/ LoopRecv
    \/ FileChange({DiskToml(2)}) \/ WatchReload

SpecFlood == InitWith(FloodInputs) /\ [][FloodNext]_vars

(***************************************************************************)
(* SpecWatch: the config watcher with every content of the file, the       *)
(* event loop and the interrupt.                                           *)
(***************************************************************************)
WatchNext ==
    \/ FileChange(DiskContents) \/ WatchReload \/ WatchCancelled
    \/ LoopRecv \/ LoopCtrlC

SpecWatch == Init /\ [][WatchNext]_vars

(***************************************************************************)
(* SpecDev: the device session with every outcome of discovery and of the  *)
(* read loop, and the interrupt that cancels it.                           *)
(***************************************************************************)
DevNext ==
    \/ DevCancelled \/ DevDiscoverOk({"Pedal"}) \/ DevDiscoverErr \/ DevStore \/ DevAnnounce
    \/ DevReadInput(AnyReports) \/ DevReadError \/ DevReadCancelled \/ DevClear
    \/ DevDisconnected \/ DevSleep \/ DevBackoffElapsed \/ DevBackoffCancelled
    \/ LoopCtrlC

SpecDev == Init /\ [][DevNext]_vars

(***************************************************************************)
(* SpecDevStop: SpecDev with the session's blocking calls as steps of      *)
(* their own, so that the token can be cancelled while a discovery or a    *)
(* read is in flight.  The session's steps are scheduled, a call that is   *)
(* in flight returns (a read at the latest when its poll period is over).  *)
(***************************************************************************)
DevStopNext == DevNext \/ DevDiscoverStart \/ DevReadStart \/ DevReadNoData

SpecDevStop ==
    /\ Init /\ [][DevStopNext]_vars
    /\ WF_vars(DevCancelled)
    /\ WF_vars(DevDiscoverOk({"Pedal"}) \/ DevDiscoverErr)
    /\ WF_vars(DevStore)
    /\ WF_vars(DevAnnounce)
    /\ WF_vars(DevReadNoData)
    /\ WF_vars(DevReadCancelled)
    /\ WF_vars(DevClear)
    /\ WF_vars(DevDisconnected)
    /\ WF_vars(DevBackoffCancelled)

\* the session's own steps are scheduled; time passes
SpecDevFair ==
    /\ SpecDev
    /\ WF_vars(DevClear)
    /\ WF_vars(DevDisconnected)
    /\ WF_vars(DevSleep)
    /\ WF_vars(DevBackoffElapsed)

(***************************************************************************)
(* SpecRender: the render tasks behind the event loop, with a device that  *)
(* can be lost, an external source whose poll can come back empty, and     *)
(* device calls that can fail.  The startup file is CfgFull or             *)
(* CfgMiscolored, the user presses the entity-bound key 1 of page home.    *)
(***************************************************************************)
(***************************************************************************)
(* SpecColors: render_button called with buttons of every combination of   *)
(* set and unset colors, bound to an entity or not, and with resolved      *)
(* states that hold the entity as on, as off, as "On", or not at all.      *)
(***************************************************************************)
Styles ==
    {[Btn(0, entity, "none", "") EXCEPT !.background = bg, !.on_background = on_bg,
                                        !.text_color = text, !.on_text_color = on_text] :
        entity \in {""} \cup Entities,
        bg \in {"", "#aa0000"}, on_bg \in {"", "#00aa00"},
        text \in {"", "#cccccc"}, on_text \in {"", "#000000"}}

Calls ==
    [button : Styles, defaults : {Defaults},
     entity_states : [Entities -> {"", "on", "off", "On"}]]

\* a call of render_button and its return
RenderButtonCall(calls) ==
    /\ \E call \in calls :
          /\ rb_call' = call
          /\ rb_ret' = render_button(call.button, call.defaults, call.entity_states)
    /\ UNCHANGED <<navVars, loopVars, watchVars, devVars, inputs_left>>
    /\ UNCHANGED <<renders, ha, display, fn_arg, fn_ret>>

ColorsNext == RenderButtonCall(Calls)

SpecColors == Init /\ [][ColorsNext]_vars

(***************************************************************************)
(* SpecPoll: the periodic tick and the polls behind it.  The startup file  *)
(* is CfgMiscolored, with presses of key 0, which leads to page b, and of  *)
(* the entity-bound keys 1 (with an action) and 2 (without) of page home,  *)
(* or it is CfgNoHome, whose home page is no page.  The source's entity    *)
(* changes and the polls are answered.  The loop, the tick and the         *)
(* spawned tasks are scheduled; the single-key renders, which do not       *)
(* touch the cache, are left pending.                                      *)
(***************************************************************************)
PollInit ==
    \E start \in {6, 7} :
        /\ page_manager = PageManager_new(Snapshots[start].home_page)
        /\ InitFrom(start, SourceOff, PollInputs)

\* the tick, followed up to MaxLog published events
PollTick == Len(bus.log) < MaxLog /\ LoopTick

PollNext ==
    \/ DevDiscoverOk({"Pedal"}) \/ DevStore \/ DevAnnounce \/ DevReadInput({{}, {0}, {1}, {2}})
    \/ LoopRecv \/ TaskExecute \/ TaskSettle \/ PollTick
    \/ HaChange
    \/ RenderFetch({"ok"}) \/ RenderAllFinish({{}})

SpecPoll ==
    /\ PollInit /\ [][PollNext]_vars
    /\ WF_vars(LoopRecv)
    /\ WF_vars(TaskExecute)
    /\ WF_vars(TaskSettle)
    /\ WF_vars(PollTick)
    /\ WF_vars(RenderFetch({"ok"}))
    /\ WF_vars(RenderAllFinish({{}}))

RenderInit ==
    \E start \in {1, 6}, source \in [Entities -> {"on", "off"}] :
        /\ page_manager = PageManager_new(Snapshots[start].home_page)
        /\ InitFrom(start, source, MaxInputs)

RenderNext ==
    \/ DevDiscoverOk({"Pedal"}) \/ DevStore \/ DevAnnounce \/ DevReadInput({{}, {1}})
    \/ DevReadError \/ DevClear \/ DevDisconnected
    \/ LoopRecv \/ TaskExecute \/ TaskSettle
    \/ RenderSingle(PushFailures)
    \/ RenderFetch({"ok", "empty"}) \/ RenderAllFinish(PushFailures)

SpecRender == RenderInit /\ [][RenderNext]_vars

(***************************************************************************)
(* The PageManager API driven directly: any call with any argument, on a   *)
(* manager created by PageManager::new(home).                              *)
(***************************************************************************)
NavInit ==
    /\ \E home \in PageIds : page_manager = PageManager_new(home)
    /\ InitRest(0)

NavNavigateTo ==
    \E id \in PageIds :
        /\ Len(page_manager.stack) < MaxStack
        /\ page_manager' = navigate_to(page_manager, id)
        /\ nav_ret' = "unit"
        /\ UNCHANGED <<loopVars, watchVars, devVars, inputs_left>>
        /\ UNCHANGED renderVars

NavGoBack ==
    /\ page_manager' = go_back(page_manager).pm
    /\ nav_ret' = IF go_back(page_manager).ret THEN "true" ELSE "false"
    /\ UNCHANGED <<loopVars, watchVars, devVars, inputs_left>>
    /\ UNCHANGED renderVars

NavGoHome ==
    /\ page_manager' = go_home(page_manager)
    /\ nav_ret' = "unit"
    /\ UNCHANGED <<loopVars, watchVars, devVars, inputs_left>>
    /\ UNCHANGED renderVars

NavSetHomePage ==
    \E home \in PageIds :
        /\ page_manager' = set_home_page(page_manager, home)
        /\ nav_ret' = "unit"
        /\ UNCHANGED <<loopVars, watchVars, devVars, inputs_left>>
        /\ UNCHANGED renderVars

NavNext == NavNavigateTo \/ NavGoBack \/ NavGoHome \/ NavSetHomePage

SpecNav == NavInit /\ [][NavNext]_vars

(***************************************************************************)
(* C1: after any sequence of navigate_to, go_back, go_home and             *)
(* set_home_page calls on PageManager::new(home) the stack has at least    *)
(* one element and current_page() is its top element.                      *)
(***************************************************************************)
C1_StackNonEmpty ==
    /\ Len(page_manager.stack) >= 1
    /\ current_page(page_manager) = page_manager.stack[Len(page_manager.stack)]

\* a go_back was refused at the bottom of the stack after the home id changed
C1_Witness ==
    /\ nav_ret = "false"
    /\ Len(page_manager.stack) = 1
    /\ page_manager.home_page # page_manager.stack[1]

(***************************************************************************)
(* C2: from every reachable navigator state and for every sequence of n    *)
(* page ids (repeats included), n navigate_to calls grow the stack by one  *)
(* each, and n go_back calls after them all return true and restore the    *)
(* stack; go_back on a single-element stack returns false and changes      *)
(* nothing.                                                                *)
(***************************************************************************)
RECURSIVE navigate_all(_, _)
navigate_all(pm, ids) ==
    IF ids = <<>> THEN pm ELSE navigate_all(navigate_to(pm, Head(ids)), Tail(ids))

\* n go_back calls: the manager after them and whether every call returned true
RECURSIVE go_back_times(_, _)
go_back_times(pm, n) ==
    IF n = 0 THEN [pm |-> pm, all_true |-> TRUE]
    ELSE LET rest == go_back_times(go_back(pm).pm, n - 1)
         IN  [pm |-> rest.pm, all_true |-> go_back(pm).ret /\ rest.all_true]

\* C2: n navigate_to calls followed by n go_back calls restore the stack,
\* each go_back returning true; go_back on a one-element stack returns false
\* and changes nothing
C2_RoundTrip ==
    /\ \A ids \in SeqsUpTo(PageIds, MaxRoundTrip) :
          LET pushed == navigate_all(page_manager, ids)
              popped == go_back_times(pushed, Len(ids))
          IN  /\ Len(pushed.stack) = Len(page_manager.stack) + Len(ids)
              /\ popped.all_true
              /\ popped.pm = page_manager
    /\ Len(page_manager.stack) = 1 =>
          go_back(page_manager) = [pm |-> page_manager, ret |-> FALSE]

\* a go_back has just popped a page pushed on top of <<home, a>>
C2_Witness ==
    /\ nav_ret = "true"
    /\ page_manager.stack = <<"home", "a">>
    /\ page_manager.home_page = "home"

(***************************************************************************)
(* Helpers of the claims about the event loop.                             *)
(***************************************************************************)
\* this step is the event loop receiving and handling event e
LoopHandles(e) ==
    /\ loop_pc = "running"
    /\ bus.missed = 0
    /\ bus.q # <<>>
    /\ Head(bus.q) = e
    /\ last_event' = e
    /\ bus' # bus
    /\ bus'.missed = 0
    /\ Len(bus'.q) <= Len(bus.q)

\* the bus with its oldest event received
Received(b) == [b EXCEPT !.q = Tail(@)]

\* how often event e is in sequence q
RECURSIVE Count(_, _)
Count(q, e) ==
    IF q = <<>> THEN 0 ELSE (IF Head(q) = e THEN 1 ELSE 0) + Count(Tail(q), e)

(***************************************************************************)
(* C3: with a snapshot whose page home has a button at key 0 that          *)
(* navigates to the existing page b, once ButtonDown(0) is handled while   *)
(* home is current, the loop eventually handles NavigateTo(b); if b is     *)
(* still a page then, b is the current page afterwards and a RenderAll     *)
(* has been published after the push.  (Checked under SpecFair: the        *)
(* spawned task and the loop are scheduled, the bus does not lag, the      *)
(* daemon is not shut down.)                                               *)
(***************************************************************************)
C3_Pressed ==
    /\ last_event = ButtonDown(0)
    /\ current_page(page_manager) = "home"
    /\ contains_key(shared_config, "home")
    /\ contains_key(shared_config, "b")
    /\ button_for_key(page_manager, shared_config, 0) # 0
    /\ Snapshots[shared_config].pages["home"][button_for_key(page_manager, shared_config, 0)].on_press
          = [action |-> "navigate", page |-> "b"]

C3_Navigated ==
    /\ last_event = NavigateTo("b")
    /\ contains_key(shared_config, "b") =>
          /\ current_page(page_manager) = "b"
          /\ bus.q # <<>>
          /\ Last(bus.q) = RenderAll

\* C3: a handled ButtonDown(0) on home leads to a handled NavigateTo(b),
\* after which b is current and a RenderAll follows the push
C3_PressNavigates == C3_Pressed ~> C3_Navigated

\* NavigateTo(b) has been handled after a press on home: b is on top of home
C3_Witness ==
    /\ last_event = NavigateTo("b")
    /\ page_manager.stack = <<"home", "b">>
    /\ shared_config = StartCfg
    /\ Last(bus.q) = RenderAll

(***************************************************************************)
(* C4: handling ConfigReloaded(new) stores new in the config store, sets   *)
(* the navigator's home id to new's home page and, if the current page is  *)
(* no page of new, resets the stack so that current_page() is new's home   *)
(* page; in every case exactly one RenderAll is published.                 *)
(***************************************************************************)
C4_ReloadHandled ==
    [][\A c \in SnapshotIds :
          LoopHandles(ConfigReloaded(c)) =>
              /\ shared_config' = c
              /\ page_manager'.home_page = Snapshots[c].home_page
              /\ ~contains_key(c, current_page(page_manager)) =>
                    /\ Len(page_manager'.stack) = 1
                    /\ current_page(page_manager') = Snapshots[c].home_page
              /\ bus' = send(Received(bus), RenderAll)]_vars

\* a reload that dropped the current page was handled: the stack was reset to
\* the new home page b, which only go_home puts at the bottom
C4_Witness ==
    /\ last_event = ConfigReloaded(3)
    /\ shared_config = 3
    /\ page_manager = [stack |-> <<"b">>, home_page |-> "b"]
    /\ Last(bus.q) = RenderAll

(***************************************************************************)
(* C5: after a config reload has been handled, also after later            *)
(* NavigateBack, NavigateTo and NavigateHome events, the current page is   *)
(* a page of the current snapshot (every snapshot of the model has its     *)
(* own home page).  A config store that no longer holds the startup        *)
(* snapshot has handled a reload.                                          *)
(***************************************************************************)
C5_CurrentPageResolves ==
    shared_config # StartCfg => contains_key(shared_config, current_page(page_manager))

\* the file contents for which load returns an error
LoadFails(file) ==
    \/ file.kind \in {"missing", "unreadable", "syntax"}
    \/ /\ file.kind = "toml"
       /\ \/ Snapshots[file.cfg].brightness > 100
          \/ \E p \in DOMAIN Snapshots[file.cfg].pages :
                \E i \in 1..Len(Snapshots[file.cfg].pages[p]) :
                    Snapshots[file.cfg].pages[p][i].key > 14

(***************************************************************************)
(* C6: when the watcher takes a change notification and loading fails      *)
(* (file missing, unreadable, not TOML, or rejected by validation), it     *)
(* publishes nothing, the config store and the navigator stay as they      *)
(* are, and the watcher keeps running.                                     *)
(***************************************************************************)
C6_FailedReloadKeepsAll ==
    [][(notify_rx' = notify_rx - 1 /\ LoadFails(disk)) =>
          /\ bus' = bus
          /\ shared_config' = shared_config
          /\ page_manager' = page_manager
          /\ last_loaded' = last_loaded
          /\ watch_pc' = "running"]_vars

\* two notifications were taken, the first for a file rejected by validation,
\* the second for a valid file, which was reloaded
C6_Witness ==
    /\ inputs_left = MaxInputs - 2
    /\ notify_rx = 0
    /\ watch_pc = "running"
    /\ last_loaded = 2
    /\ Count(bus.q, ConfigReloaded(2)) = 1
    /\ Count(bus.q, ConfigReloaded(4)) = 0
    /\ Len(bus.q) = 1

(***************************************************************************)
(* C7: every successful reload publishes one ConfigReloaded with the       *)
(* loaded snapshot, the snapshots are stored in publish order, and once    *)
(* the bus is drained the config store holds the snapshot loaded last.     *)
(***************************************************************************)
C7_DrainedStoreIsLastLoaded ==
    (bus.q = <<>> /\ bus.missed = 0) => shared_config = last_loaded

(***************************************************************************)
(* C8: when the read loop returns an error, after any number of published  *)
(* button events, the session first clears the handle cell (publishing     *)
(* nothing), then publishes DeviceDisconnected, once per connection, and   *)
(* starts the wait; it leaves the wait for a new discovery only when the   *)
(* configured reconnect interval has elapsed, and a cancelled session      *)
(* attempts no discovery and stays stopped.                                *)
(***************************************************************************)
Connected == Count(bus.q, DeviceConnected)

Disconnected == Count(bus.q, DeviceDisconnected)

C8_OncePerConnection ==
    /\ bus.missed = 0
    /\ dev_pc \in {"read", "clear", "disconnected"} => Connected = Disconnected + 1
    /\ dev_pc \in {"discover", "store", "announce", "backoff"} => Connected = Disconnected
    /\ dev_pc = "stopped" => Disconnected \in {Connected - 1, Connected}

C8_Steps ==
    /\ dev_pc = "read" /\ dev_pc' = "clear" => bus' = bus
    /\ dev_pc = "clear" /\ dev_pc' # dev_pc =>
          /\ dev_pc' = "disconnected"
          /\ deck_handle' = "none"
          /\ bus' = bus
    /\ dev_pc = "disconnected" /\ dev_pc' # dev_pc =>
          /\ deck_handle = "none"
          /\ deck_handle' = "none"
          /\ bus' = send(bus, DeviceDisconnected)
          /\ dev_pc' = "backoff"
          /\ dev_sleep' = 0
    /\ dev_pc = "backoff" /\ dev_pc' # dev_pc =>
          \/ /\ dev_pc' = "discover"
             /\ dev_sleep >= Snapshots[shared_config].reconnect_interval_ms
          \/ dev_pc' = "stopped" /\ cancel
    /\ dev_pc = "discover" /\ cancel => dev_pc' \in {"discover", "stopped"}
    /\ dev_pc = "stopped" => dev_pc' = "stopped"

\* C8: after a read error the handle is cleared, then DeviceDisconnected is
\* published once per connection, and discovery is not retried before the
\* reconnect interval has elapsed, nor at all once cancelled
C8_DisconnectOnceThenWait == []C8_OncePerConnection /\ [][C8_Steps]_vars

\* a session that lost its device after a button press and has waited out
\* the interval
C8_Witness ==
    /\ dev_pc = "discover"
    /\ deck_handle = "none"
    /\ dev_sleep = Snapshots[shared_config].reconnect_interval_ms
    /\ Disconnected = 1
    /\ Count(bus.q, ButtonDown(0)) >= 1

(***************************************************************************)
(* C9: the session stops only when cancelled; a failed discovery publishes *)
(* nothing, leaves the handle cell as it is and starts the wait; from a    *)
(* failed discovery and from a read error the session waits one interval   *)
(* and is back at discovery, unless it is cancelled meanwhile.  (Checked   *)
(* under SpecDevFair: the session's steps are scheduled and time passes.)  *)
(***************************************************************************)
C9_StoppedOnlyByCancel == dev_pc = "stopped" => cancel

C9_Steps ==
    /\ dev_pc = "discover" /\ dev_pc' # dev_pc =>
          \/ dev_pc' = "store" /\ ~cancel
          \/ /\ dev_pc' = "backoff"
             /\ dev_sleep' = 0
             /\ bus' = bus
             /\ deck_handle' = deck_handle
          \/ dev_pc' = "stopped" /\ cancel
    /\ dev_pc = "backoff" /\ dev_pc' = "discover" => dev_sleep = reconnect_interval

C9_Waiting == dev_pc \in {"clear", "disconnected", "backoff"}

\* C9: the session stops only by cancellation; a failed discovery publishes
\* nothing and keeps the handle; every failure leads back to discovery after
\* one interval
C9_RetriesUntilCancelled ==
    /\ []C9_StoppedOnlyByCancel
    /\ [][C9_Steps]_vars
    /\ C9_Waiting ~> (dev_pc = "discover" \/ (dev_pc = "stopped" /\ cancel))

\* a session back at discovery after a failed discovery and a full wait,
\* with nothing published and no handle stored
C9_Witness ==
    /\ dev_pc = "discover"
    /\ ~cancel
    /\ dev_sleep = reconnect_interval
    /\ bus.q = <<>>
    /\ deck_handle = "none"

(***************************************************************************)
(* C10: a report makes the read loop publish ButtonDown(k) or ButtonUp(k)  *)
(* for exactly the keys k whose pressed state differs from the state seen  *)
(* before, and nothing for a key that did not change.                      *)
(***************************************************************************)
C10_OnlyChangedKeys ==
    [][dev_pc = "read" /\ keys' # keys =>
          bus' = send_all(bus, report_events_changed(keys', keys, KeyCount[dev_kind]))]_vars

(***************************************************************************)
(* C11: once the token is cancelled the session starts no discovery and    *)
(* no read any more and reaches its stop: from discovery and from the      *)
(* read loop when no call is in flight, after the call that is in flight   *)
(* otherwise, and from the backoff wait whether or not the sleep is over.  *)
(* (Checked under SpecDevStop, which gives no fairness to the passing of   *)
(* time: the wait is left by the cancellation alone.)                      *)
(***************************************************************************)
C11_NoNewCall ==
    cancel =>
        /\ ~(~dev_busy /\ dev_busy')
        /\ dev_pc = "discover" /\ ~dev_busy => dev_pc' \in {"discover", "stopped"}
        /\ dev_pc = "read" /\ ~dev_busy =>
              /\ dev_pc' \in {"read", "stopped"}
              /\ keys' = keys
              /\ bus' = bus
        /\ dev_pc = "backoff" /\ dev_pc' # dev_pc => dev_pc' \in {"stopped", "discover"}
        /\ dev_pc = "stopped" => dev_pc' = "stopped"

C11_WaitInterruptible ==
    cancel /\ dev_pc = "backoff" => ENABLED DevBackoffCancelled

\* C11: a cancelled session starts no further discovery or read, can leave
\* the backoff wait at once, and reaches its stop
C11_CancelStops ==
    /\ [][C11_NoNewCall]_vars
    /\ []C11_WaitInterruptible
    /\ cancel ~> dev_pc = "stopped"

\* a session cancelled in its backoff wait after a lost connection, stopped
\* before the interval was over
C11_Witness ==
    /\ cancel
    /\ dev_pc = "stopped"
    /\ dev_sleep < reconnect_interval
    /\ Disconnected = 1

(***************************************************************************)
(* C12: the retained events are the latest published ones, in publish      *)
(* order.  When the loop has fallen behind by more than the buffer depth   *)
(* and K events between its cursor and the oldest retained event are       *)
(* gone, its next receive is one lag notification that counts K, the loop  *)
(* keeps running and handles nothing on that turn; every other receive     *)
(* yields the published event right after the cursor, so the events after  *)
(* the gap arrive in publish order, each once.                             *)
(***************************************************************************)
\* the published events the receiver is past or has lost
Behind == Len(bus.log) - Len(bus.q)

C12_Retained ==
    /\ Len(bus.q) <= CHANNEL_CAPACITY
    /\ bus.q = SubSeq(bus.log, Behind + 1, Len(bus.log))
    /\ rx_next <= Behind
    /\ rx_next < Behind => Len(bus.q) = CHANNEL_CAPACITY

C12_Receive ==
    rx_next' # rx_next =>
        IF rx_next < Behind
        THEN /\ last_event' = Lagged(Behind - rx_next)
             /\ rx_next' = Behind
             /\ loop_pc' = "running"
             /\ bus'.q = bus.q
             /\ bus'.log = bus.log
             /\ UNCHANGED <<page_manager, shared_config, last_states, tasks, cancel>>
        ELSE /\ last_event' = bus.log[rx_next + 1]
             /\ rx_next' = rx_next + 1

\* C12: a receiver that fell behind gets one lag notification with the count
\* of the lost events, keeps running, and then gets the retained events in
\* publish order, each once
C12_LagThenInOrder == []C12_Retained /\ [][C12_Receive]_vars

\* the first two events published, a ConfigReloaded among them, were lost:
\* the loop has been told so and has then received the third one published,
\* with the startup snapshot still in the store
C12_Witness ==
    /\ Len(bus.log) > CHANNEL_CAPACITY
    /\ bus.log[1] = ConfigReloaded(2)
    /\ shared_config = StartCfg
    /\ rx_next = 3
    /\ last_event = bus.log[3]
    /\ loop_pc = "running"
    /\ bus.missed = 0

(***************************************************************************)
(* C13: when the loop handles ButtonDown for a button of the current page  *)
(* that is bound to an entity, that step sets the entity's cache entry to  *)
(* "off" if it was "on" and to "on" otherwise, leaves the other entries,   *)
(* and spawns the single-key render with a copy of the cache as it then    *)
(* is; the action task, if any, is spawned by the same step and has not    *)
(* run.  The single-key render renders with the copy it was given.  A      *)
(* second flip of an entry that was "on" or "off" gives that value back.   *)
(***************************************************************************)
\* the entity-bound button a received ButtonDown meets: an index, else 0
C13_Bound(event) ==
    LET i == button_for_key(page_manager, shared_config, event.key)
    IN  IF i # 0 /\ Snapshots[shared_config].pages[current_page(page_manager)][i].state_entity # ""
        THEN i ELSE 0

C13_PressStep ==
    rx_next' # rx_next /\ last_event'.type = "ButtonDown" /\ C13_Bound(last_event') # 0 =>
        LET i == C13_Bound(last_event')
            button == Snapshots[shared_config].pages[current_page(page_manager)][i]
            entity == button.state_entity
            spawned == BagToSet(renders' (-) renders)
        IN  /\ last_states'[entity] = IF last_states[entity] = "on" THEN "off" ELSE "on"
            /\ \A other \in Entities \ {entity} : last_states'[other] = last_states[other]
            /\ last_states[entity] \in {"on", "off"} =>
                  flipped(last_states'[entity]) = last_states[entity]
            /\ BagCardinality(renders') = BagCardinality(renders) + 1
            /\ \A t \in spawned :
                  /\ t.kind = "single"
                  /\ t.key = last_event'.key
                  /\ t.button = i
                  /\ t.states = last_states'
            /\ spawned # {}
            /\ \A t \in BagToSet(tasks' (-) tasks) : t.pc = "execute"
            /\ bus'.log = bus.log

C13_RenderStep ==
    \A t \in BagToSet(renders) :
        t.kind = "single" /\ renders' = renders (-) SetToBag({t}) =>
            LET button == Snapshots[t.cfg].pages[t.page][t.button]
            IN  /\ display'.states = t.states
                /\ display'.images =
                      <<Image(t.key, [ok |-> TRUE,
                                      bg |-> pick_background(button, Snapshots[t.cfg].defaults, t.states),
                                      text_color |-> pick_text_color(button, Snapshots[t.cfg].defaults, t.states)],
                              FALSE)>>
                /\ \A n \in 1..Len(display'.ops) : display'.ops[n].key \in {t.key, -1}

\* C13: a press of an entity-bound button flips the cache entry before the
\* action runs, the single-key render uses the flipped value, and a second
\* flip restores an on/off value
C13_OptimisticFlip == [][C13_PressStep /\ C13_RenderStep]_vars

\* the key was pressed while the cache held "on": the single-key render has
\* drawn it with the off-state colors and sent it to the device
C13_Witness ==
    /\ display.kind = "single"
    /\ display.states["light"] = "off"
    /\ display.images # <<>>
    /\ display.images[1].bg = Defaults.background
    /\ Len(display.ops) = 2

(***************************************************************************)
(* C14: the task that ButtonDown spawns for a button with an action first  *)
(* runs the action, which publishes no RenderAll.  For a button bound to   *)
(* an entity the task then waits out the settle delay, whether the action  *)
(* returned Ok or Err, and publishes exactly one RenderAll as its last     *)
(* step; for a button without an entity the task ends with the action and  *)
(* publishes no RenderAll.  Every spawned task comes to its end.           *)
(* (Checked under SpecFair: a spawned task runs.)                          *)
(***************************************************************************)
\* the loop's steps spawn the task of the pressed button, at its first step
C14_Spawn ==
    rx_next' # rx_next =>
        LET i == button_for_key(page_manager, shared_config, last_event'.key)
            button == Snapshots[shared_config].pages[current_page(page_manager)][i]
        IN  IF last_event'.type = "ButtonDown" /\ i # 0 /\ button.on_press.action # "none"
            THEN tasks' = tasks (+) SetToBag({
                    [action |-> button.on_press.action, page |-> button.on_press.page,
                     has_state |-> button.state_entity # "", pc |-> "execute", result |-> ""]})
            ELSE tasks' = tasks

\* every other step that changes the tasks is one step of one task
C14_TaskStep ==
    rx_next' = rx_next /\ tasks' # tasks =>
        \E t \in BagToSet(tasks) :
            \/ /\ t.pc = "execute"
               /\ t.has_state
               /\ \E result \in {"Ok", "Err"} :
                     tasks' = (tasks (-) SetToBag({t}))
                                  (+) SetToBag({[t EXCEPT !.pc = "settle", !.result = result]})
               /\ Count(bus'.log, RenderAll) = Count(bus.log, RenderAll)
            \/ /\ t.pc = "execute"
               /\ ~t.has_state
               /\ tasks' = tasks (-) SetToBag({t})
               /\ Count(bus'.log, RenderAll) = Count(bus.log, RenderAll)
            \/ /\ t.pc = "settle"
               /\ t.has_state
               /\ tasks' = tasks (-) SetToBag({t})
               /\ bus'.log = Append(bus.log, RenderAll)

\* C14: an entity-bound button's action task publishes exactly one
\* RenderAll, after the action and the settle delay, on success and on
\* failure; the task of a button without an entity publishes none
C14_OneRenderAllAfterSettle ==
    /\ [][C14_Spawn /\ C14_TaskStep]_vars
    /\ (tasks # EmptyBag) ~> (tasks = EmptyBag)

\* the entity-bound key 1 was pressed once on a connected device and its
\* task is over: the bus has seen the RenderAll of the connection and the
\* one of the task
C14_Witness ==
    /\ tasks = EmptyBag
    /\ Count(bus.log, ButtonDown(1)) = 1
    /\ Count(bus.log, DeviceConnected) = 1
    /\ \A n \in 1..Len(bus.log) :
          bus.log[n] \in {DeviceConnected, ButtonDown(1), RenderAll} \/ bus.log[n].type = "ButtonUp"
    /\ Count(bus.log, RenderAll) = 2
    /\ Last(bus.log) = RenderAll

(***************************************************************************)
(* C15: when an entity's cache entry, set by a press, differs from the     *)
(* entity's state at the source, no further press and no change at the     *)
(* source is to come, the page with the entity's button is and stays the   *)
(* current page and the polls are answered, the cache entry eventually     *)
(* equals the state at the source: through the RenderAll of the button's   *)
(* action task or, for a button without action as well, through the        *)
(* periodic tick.                                                          *)
(* (Checked under SpecPoll, for the presses after which the tick is still  *)
(* followed.)                                                              *)
(***************************************************************************)
\* the cache holds a guess for entity that the source does not bear out
C15_WrongGuess(entity) ==
    /\ last_states[entity] \in {"on", "off"}
    /\ last_states[entity] # ha[entity]
    /\ entity \in collect_state_entities(shared_config, current_page(page_manager))

\* no press and no change at the source is to come, every published press
\* has been handled, and the tick is followed after the pending tasks have
\* published
C15_Quiet ==
    /\ inputs_left = 0
    /\ \A n \in 1..Len(bus.q) : bus.q[n].type # "ButtonDown"
    /\ Len(bus.log) + BagCardinality(tasks) < MaxLog
    /\ loop_pc = "running"

\* the current page has no button bound to entity
C15_PageLeft(entity) ==
    entity \notin collect_state_entities(shared_config, current_page(page_manager))

\* C15: a wrong optimistic guess in the cache is eventually replaced by the
\* state at the source, unless the button's page is left
C15_GuessCorrected ==
    \A entity \in Entities :
        (C15_WrongGuess(entity) /\ C15_Quiet)
            ~> (last_states[entity] = ha[entity] \/ C15_PageLeft(entity))

\* key 2, bound to the entity and without action, was pressed once; the
\* single-key render still holds the guess, which the source does not
\* bear out, and the render-all of a later tick has corrected the cache
C15_Witness ==
    /\ Count(bus.log, ButtonDown(2)) = 1
    /\ Count(bus.log, ButtonDown(1)) = 0
    /\ \E n \in 1..Len(bus.log) :
          /\ bus.log[n] = ButtonDown(2)
          /\ \A m \in 1..Len(bus.log) : bus.log[m] = RenderAll /\ m # 2 => m > n
    /\ Count(bus.log, RenderAll) = 2
    /\ bus.q = <<>>
    /\ \A t \in BagToSet(renders) : t.kind = "single" /\ t.states["light"] # ha["light"]
    /\ renders # EmptyBag
    /\ display.kind = "all"
    /\ last_states["light"] = ha["light"]

(***************************************************************************)
(* C16: a tick of the loop's timer publishes exactly one RenderAll when    *)
(* the current page is a page of the snapshot in the store and has a       *)
(* button bound to an entity, and publishes nothing otherwise; it changes  *)
(* neither the navigator nor the config store nor the entity cache.        *)
(***************************************************************************)
\* this step is a turn of the loop that received nothing: the tick
C16_TickStep ==
    /\ last_event' = TickTurn
    /\ UNCHANGED <<rx_next, tasks, loop_pc, cancel, watchVars, devVars, renderVars, inputs_left>>

C16_PageHasEntity ==
    /\ current_page(page_manager) \in DOMAIN Snapshots[shared_config].pages
    /\ \E i \in 1..Len(Snapshots[shared_config].pages[current_page(page_manager)]) :
          Snapshots[shared_config].pages[current_page(page_manager)][i].state_entity # ""

\* C16: a tick publishes one RenderAll for a current page with an
\* entity-bound button and nothing otherwise, and changes neither the
\* navigator nor the config store nor the entity cache
C16_TickPublishes ==
    [][C16_TickStep =>
          /\ bus'.log = IF C16_PageHasEntity THEN Append(bus.log, RenderAll) ELSE bus.log
          /\ bus'.q = IF C16_PageHasEntity THEN Append(bus.q, RenderAll) ELSE bus.q
          /\ UNCHANGED <<page_manager, nav_ret, shared_config, last_states>>]_vars

\* a tick on page b, which has no entity-bound button, after the loop had
\* handled everything published: nothing was published
C16_Witness ==
    /\ last_event = TickTurn
    /\ current_page(page_manager) = "b"
    /\ contains_key(shared_config, "b")
    /\ rx_next = Len(bus.log)
    /\ Last(bus.log) = RenderAll
    /\ bus.q = <<>>

(***************************************************************************)
(* Helpers of the claims about render-all: the last finished render task   *)
(* was a render-all, its page, and what render_button makes of a button    *)
(* with the states the task rendered with.                                 *)
(***************************************************************************)
AllDone == display.kind = "all"

DonePage == Snapshots[display.cfg].pages[display.page]

\* the buttons of the page at key
DoneButtons(key) == {i \in 1..Len(DonePage) : DonePage[i].key = key}

\* the button the task rendered for key: the first of the list
DoneButton(key) == DonePage[CHOOSE i \in DoneButtons(key) : \A j \in DoneButtons(key) : i <= j]

\* the render of the button at key fails
DoneFails(key) ==
    /\ DoneButtons(key) # {}
    /\ ~render_button(DoneButton(key), Snapshots[display.cfg].defaults, display.states).ok

\* the images of the task with this key
DoneImages(key) == {n \in 1..Len(display.images) : display.images[n].key = key}

(***************************************************************************)
(* C17: a render-all makes one image for each of the 15 key slots whose    *)
(* render does not fail: of the page's button with that key, else the      *)
(* blank tile.  If the handle cell holds a device when the task loads it,  *)
(* the task sets the images by ascending key and then flushes once; if     *)
(* the cell is empty it makes no call on the device.                       *)
(***************************************************************************)
C17_OneImagePerSlot ==
    \A key \in 0..(NUM_KEYS - 1) :
        IF DoneFails(key) THEN DoneImages(key) = {}
        ELSE /\ Cardinality(DoneImages(key)) = 1
             /\ \A n \in DoneImages(key) :
                   IF DoneButtons(key) = {}
                   THEN display.images[n].blank /\ display.images[n].bg = "#000000"
                   ELSE /\ ~display.images[n].blank
                        /\ display.images[n].bg =
                              render_button(DoneButton(key), Snapshots[display.cfg].defaults,
                                            display.states).bg

C17_PushThenFlush ==
    /\ \A n \in 1..Len(display.images) : display.images[n].key \in 0..(NUM_KEYS - 1)
    /\ \A m, n \in 1..Len(display.images) :
          m < n => display.images[m].key < display.images[n].key
    /\ display.handle = "deck" =>
          /\ Len(display.ops) = Len(display.images) + 1
          /\ \A n \in 1..Len(display.images) :
                /\ display.ops[n].op = "set_button_image"
                /\ display.ops[n].key = display.images[n].key
          /\ display.ops[Len(display.ops)].op = "flush"
    /\ display.handle # "deck" => display.ops = <<>>

\* C17: a render-all makes an image for every key slot, the button's or the
\* blank tile; with a device in the handle cell it sets them by ascending
\* key and flushes once at the end, with an empty cell it makes no call
C17_RenderAllPushes == AllDone => C17_OneImagePerSlot /\ C17_PushThenFlush

\* C17 as stated: every render-all makes 15 images
C17_FifteenImages == AllDone => Len(display.images) = NUM_KEYS

\* a render-all of page home of CfgFull: 15 images, two of buttons, set on
\* the device and flushed
C17_Witness ==
    /\ AllDone
    /\ display.cfg = 1
    /\ display.page = "home"
    /\ Len(display.images) = NUM_KEYS
    /\ display.handle = "deck"
    /\ Len(display.ops) = NUM_KEYS + 1
    /\ \A n \in 1..Len(display.ops) : display.ops[n].ok

(***************************************************************************)
(* C18: a render-all renders an entity-bound button with the entity's      *)
(* polled state when the poll returned one and with its cached state       *)
(* otherwise, that is, with the cache entry as the task's update left it;  *)
(* after a poll that returned the empty map a cached "on" is drawn with    *)
(* the on-state colors.                                                    *)
(***************************************************************************)
\* C18: the image of an entity-bound button has the colors of the polled
\* state, or of the cached state when the poll returned none
C18_PolledElseCached ==
    AllDone =>
        \A key \in 0..(NUM_KEYS - 1) :
            DoneButtons(key) # {} /\ DoneButton(key).state_entity # "" =>
                \A n \in DoneImages(key) :
                    /\ display.images[n].bg =
                          pick_background(DoneButton(key), Snapshots[display.cfg].defaults,
                                          display.cache)
                    /\ display.images[n].text_color =
                          pick_text_color(DoneButton(key), Snapshots[display.cfg].defaults,
                                          display.cache)

(***************************************************************************)
(* C19: in a render-all a key slot whose render fails is left out and      *)
(* every other slot still gets its image; with a device in the handle      *)
(* cell every image is set on the device, whatever the calls before it     *)
(* returned, and the flush is issued after them.                           *)
(***************************************************************************)
\* the calls of the task that set the image of key
DoneSets(key) ==
    {n \in 1..Len(display.ops) :
        display.ops[n].op = "set_button_image" /\ display.ops[n].key = key}

\* C19: a render error skips only its own key, and a failed device call
\* stops neither the remaining calls nor the flush
C19_ErrorsAreLocal ==
    AllDone /\ display.handle = "deck" =>
        /\ \A key \in 0..(NUM_KEYS - 1) :
              Cardinality(DoneSets(key)) = IF DoneFails(key) THEN 0 ELSE 1
        /\ Cardinality({n \in 1..Len(display.ops) : display.ops[n].op = "flush"}) = 1
        /\ display.ops[Len(display.ops)].op = "flush"

\* a render-all of page home of CfgMiscolored on a device that rejects the
\* image of key 1 and the flush: key 4 does not render, the 14 other
\* images are set and the flush is issued
C19_Witness ==
    /\ AllDone
    /\ display.cfg = 6
    /\ display.handle = "deck"
    /\ DoneFails(4)
    /\ Len(display.images) = NUM_KEYS - 1
    /\ Len(display.ops) = NUM_KEYS
    /\ ~display.ops[2].ok
    /\ display.ops[2].key = 1
    /\ display.ops[3].ok
    /\ ~display.ops[NUM_KEYS].ok

(***************************************************************************)
(* C20: render_button takes the background from the button's on-state     *)
(* background if the button is bound to an entity whose resolved state is  *)
(* exactly "on" and that background is set, else from the button's         *)
(* background if set, else from the defaults; it takes the text color by   *)
(* the same rule from the on-state text color, the button's text color     *)
(* and the defaults' text color, whatever level the background came from.  *)
(* A button without entity, or whose entity the resolved states do not     *)
(* hold, gets no on-state color.                                           *)
(***************************************************************************)
\* the entity of the call's button is resolved, to exactly "on"
C20_On ==
    /\ rb_call.button.state_entity # ""
    /\ rb_call.entity_states[rb_call.button.state_entity] = "on"

\* the first of the three levels that is set ("" is unset)
C20_Level(on_state, own, default) ==
    IF C20_On /\ on_state # "" THEN on_state ELSE IF own # "" THEN own ELSE default

\* C20: background and text color each come from the first set level of
\* on-state color (entity exactly "on"), button color, default color
C20_ThreeLevels ==
    rb_ret.ok =>
        /\ rb_ret.bg = C20_Level(rb_call.button.on_background, rb_call.button.background,
                                 rb_call.defaults.background)
        /\ rb_ret.text_color = C20_Level(rb_call.button.on_text_color, rb_call.button.text_color,
                                         rb_call.defaults.text_color)
        /\ (rb_call.button.state_entity = ""
               \/ rb_call.entity_states[rb_call.button.state_entity] = "") =>
              /\ rb_ret.bg \in {rb_call.button.background, rb_call.defaults.background}
              /\ rb_ret.text_color \in {rb_call.button.text_color, rb_call.defaults.text_color}

\* the entity is on, the button has an on-state text color and no on-state
\* background: the background is the button's own, the text color the
\* on-state one
C20_Witness ==
    /\ rb_ret.ok
    /\ C20_On
    /\ rb_call.button.on_background = ""
    /\ rb_ret.bg = "#aa0000"
    /\ rb_ret.text_color = "#000000"

(***************************************************************************)
(* Strings (Rust's str).  A string is the sequence of its characters; a    *)
(* character is written as itself, the two characters outside ASCII as     *)
(* their code points.  Lengths and slice bounds count UTF-8 bytes.         *)
(***************************************************************************)
\* char::len_utf8
len_utf8(c) == IF c = "U+00E9" THEN 2 ELSE IF c = "U+20AC" THEN 3 ELSE 1

\* str::len: the length in bytes
RECURSIVE str_len(_)
str_len(s) == IF s = <<>> THEN 0 ELSE len_utf8(Head(s)) + str_len(Tail(s))

\* the byte offset at which the character n of s starts (Len(s) + 1: the end)
char_offset(s, n) == str_len(SubSeq(s, 1, n - 1))

\* str::is_char_boundary
is_char_boundary(s, index) == \E n \in 1..(Len(s) + 1) : char_offset(s, n) = index

\* &s[from..to], with from <= to <= s.len(): the slice, or the panic of a
\* bound that is no character boundary
byte_slice(s, from, to) ==
    IF is_char_boundary(s, from) /\ is_char_boundary(s, to)
    THEN [panic |-> FALSE,
          s |-> SubSeq(s, CHOOSE n \in 1..(Len(s) + 1) : char_offset(s, n) = from,
                          (CHOOSE n \in 1..(Len(s) + 1) : char_offset(s, n) = to) - 1)]
    ELSE [panic |-> TRUE, s |-> <<>>]

\* str::repeat(2)
repeat2(s) == s \o s

\* str::trim_start_matches(c): without every leading c
RECURSIVE trim_start_matches(_, _)
trim_start_matches(s, c) ==
    IF s # <<>> /\ Head(s) = c THEN trim_start_matches(Tail(s), c) ELSE s

(***************************************************************************)
(* Hex colors (src/render/canvas.rs, parse_hex_color).                     *)
(***************************************************************************)
\* char::to_digit(16)
HexDigit ==
    "0" :> 0 @@ "1" :> 1 @@ "2" :> 2 @@ "3" :> 3 @@ "4" :> 4 @@ "5" :> 5 @@ "6" :> 6
        @@ "7" :> 7 @@ "8" :> 8 @@ "9" :> 9
        @@ "a" :> 10 @@ "b" :> 11 @@ "c" :> 12 @@ "d" :> 13 @@ "e" :> 14 @@ "f" :> 15
        @@ "A" :> 10 @@ "B" :> 11 @@ "C" :> 12 @@ "D" :> 13 @@ "E" :> 14 @@ "F" :> 15

\* the value of a string of hex digits
RECURSIVE hex_value(_)
hex_value(digits) ==
    IF digits = <<>> THEN 0 ELSE 16 * hex_value(ButLast(digits)) + HexDigit[Last(digits)]

\* u8::from_str_radix(src, 16): a leading "+" is taken as the sign, then
\* every character must be a hex digit and the value must fit
from_str_radix(src) ==
    IF src = <<>> THEN [ok |-> FALSE, value |-> 0]
    ELSE LET digits == IF Head(src) = "+" THEN Tail(src) ELSE src
         IN  IF digits = <<>> THEN [ok |-> FALSE, value |-> 0]
             ELSE IF \E n \in 1..Len(digits) : digits[n] \notin DOMAIN HexDigit
                  THEN [ok |-> FALSE, value |-> 0]
             ELSE IF hex_value(digits) > 255 THEN [ok |-> FALSE, value |-> 0]
             ELSE [ok |-> TRUE, value |-> hex_value(digits)]

ColorOk(r, g, b) == [kind |-> "Ok", r |-> r, g |-> g, b |-> b]

ColorErr == [kind |-> "Render", r |-> 0, g |-> 0, b |-> 0]

Panic == [kind |-> "panic", r |-> 0, g |-> 0, b |-> 0]

\* one of the three components: the slice is taken, doubled in the 3-digit
\* form, and converted; the slice's panic, or the conversion's result
hex_component(hex, from, to, doubled) ==
    LET slice == byte_slice(hex, from, to)
        parsed == from_str_radix(IF doubled THEN repeat2(slice.s) ELSE slice.s)
    IN  [panic |-> slice.panic, ok |-> ~slice.panic /\ parsed.ok,
         value |-> IF slice.panic THEN 0 ELSE parsed.value]

\* parse_hex_color: the components are computed in the order r, g, b and
\* the first that fails ends the call
parse_hex_color(hex_in) ==
    LET hex == trim_start_matches(hex_in, "#")
        width == IF str_len(hex) = 3 THEN 1 ELSE 2
        r == hex_component(hex, 0, width, width = 1)
        g == hex_component(hex, width, 2 * width, width = 1)
        b == hex_component(hex, 2 * width, 3 * width, width = 1)
    IN  IF str_len(hex) \notin {3, 6} THEN ColorErr
        ELSE IF r.panic THEN Panic ELSE IF ~r.ok THEN ColorErr
        ELSE IF g.panic THEN Panic ELSE IF ~g.ok THEN ColorErr
        ELSE IF b.panic THEN Panic ELSE IF ~b.ok THEN ColorErr
        ELSE ColorOk(r.value, g.value, b.value)

(***************************************************************************)
(* SpecHex: parse_hex_color called with every string of up to MaxHexLen    *)
(* characters over HexChars and with the longer strings of LongHexes.      *)
(***************************************************************************)
HexChars == {"#", "f", "1", "g", "+", "U+00E9", "U+20AC"}

LongHexes ==
    {<<"#", "1", "a", "1", "a", "2", "e">>, <<"#", "1", "A", "1", "A", "2", "E">>,
     <<"1", "a", "1", "a", "2", "e">>, <<"#", "1", "a", "1", "a", "2">>,
     <<"#", "1", "a", "1", "a", "2", "e", "f", "f">>,
     <<"#", "1", "a", "1", "g", "2", "e">>,
     <<"#", "+", "1", "+", "a", "+", "2">>,
     <<"#", "1", "a", "U+00E9", "2", "e">>,
     <<"#", "1", "a", "U+20AC", "2">>,
     <<"#", "U+20AC", "U+20AC">>}

HexInputs == SeqsUpTo(HexChars, MaxHexLen) \cup LongHexes

HexInit ==
    \E hex \in HexInputs :
        /\ page_manager = PageManager_new(Snapshots[StartCfg].home_page)
        /\ InitState(StartCfg, SourceOff, 0, hex, NoRet)

\* a call of parse_hex_color and its return
ParseHexCall ==
    /\ fn_ret = NoRet
    /\ fn_ret' = parse_hex_color(fn_arg)
    /\ UNCHANGED <<navVars, loopVars, watchVars, devVars, inputs_left>>
    /\ UNCHANGED <<renders, ha, display, rb_call, rb_ret, fn_arg>>

HexNext == ParseHexCall

SpecHex == HexInit /\ [][HexNext]_vars

(***************************************************************************)
(* C21: parse_hex_color returns (255,255,255) for "#fff" and (26,26,46)    *)
(* for "#1a1a2e", expands each digit d of a 3-digit form to the byte dd,   *)
(* and for every other input (a length other than 3 or 6 after the         *)
(* leading '#', non-hex characters, multi-byte characters) returns a       *)
(* Render error and never panics.                                          *)
(***************************************************************************)
\* the characters after the leading '#'s are n hex digits
C21_Digits(hex, n) ==
    /\ Len(trim_start_matches(hex, "#")) = n
    /\ \A k \in 1..n : trim_start_matches(hex, "#")[k] \in DOMAIN HexDigit

\* the byte of the hex digits d1 d2
C21_Byte(d1, d2) == 16 * HexDigit[d1] + HexDigit[d2]

\* C21: the two named colors parse to their bytes, a 3-digit form parses to
\* the bytes dd, a 6-digit form to its bytes, and every other string gives
\* the Render error, never a panic
C21_ParsesOrErrors ==
    fn_ret # NoRet =>
        LET digits == trim_start_matches(fn_arg, "#")
        IN  /\ fn_arg = <<"#", "f", "f", "f">> => fn_ret = ColorOk(255, 255, 255)
            /\ fn_arg = <<"#", "1", "a", "1", "a", "2", "e">> => fn_ret = ColorOk(26, 26, 46)
            /\ C21_Digits(fn_arg, 3) =>
                  fn_ret = ColorOk(C21_Byte(digits[1], digits[1]), C21_Byte(digits[2], digits[2]),
                                   C21_Byte(digits[3], digits[3]))
            /\ C21_Digits(fn_arg, 6) =>
                  fn_ret = ColorOk(C21_Byte(digits[1], digits[2]), C21_Byte(digits[3], digits[4]),
                                   C21_Byte(digits[5], digits[6]))
            /\ ~C21_Digits(fn_arg, 3) /\ ~C21_Digits(fn_arg, 6) => fn_ret = ColorErr

(***************************************************************************)
(* SpecFail: the daemon with everything that can fail while it runs.  The  *)
(* startup file is CfgMiscolored, whose key 4 does not render and whose    *)
(* key 1 has an HTTP action; the device has 32 keys, so that two reports   *)
(* overrun the bus, and it can be lost; discovery can fail; the polls      *)
(* come back empty; the device calls fail; the file changes to one that    *)
(* does not load.  The loop is stopped by the interrupt or by a       *)
(* Shutdown event, which the daemon's own tasks never publish.             *)
(***************************************************************************)
\* a holder of a sender publishes Shutdown
SendShutdown ==
    /\ inputs_left > 0
    /\ inputs_left' = inputs_left - 1
    /\ bus' = send(bus, Shutdown)
    /\ UNCHANGED <<navVars, shared_config, loop_pc, cancel, run_wait, last_event, rx_next, last_states, cache_lock, tasks>>
    /\ UNCHANGED <<watchVars, devVars>>
    /\ UNCHANGED renderVars

\* contents that load rejects: no TOML, and a brightness out of range
BadContents == {DiskBroken("syntax"), DiskToml(4)}

FailInit ==
    /\ page_manager = PageManager_new(Snapshots[6].home_page)
    /\ InitFrom(6, SourceOff, MaxInputs)

FailNext ==
    \/ DevDiscoverOk({"Xl"}) \/ DevDiscoverErr \/ DevStore \/ DevAnnounce
    \/ DevReadInput({{}, {1}}) \/ DevReadError \/ DevClear \/ DevDisconnected
    \/ LoopRecv \/ LoopCtrlC \/ SendShutdown \/ TaskExecute \/ TaskSettle
    \/ FileChange(BadContents) \/ WatchReload
    \/ RenderSingle({{1, -1}}) \/ RenderFetch({"empty"}) \/ RenderAllFinish({{1, -1}})

SpecFail == FailInit /\ [][FailNext]_vars

(***************************************************************************)
(* C22: the event loop stops only on cancellation, the interrupt, a        *)
(* Shutdown event or the closure of the bus.  No action error, render      *)
(* error, device error, poll failure, reload failure or lag notification   *)
(* stops it or changes the navigator or the config store.  (The token is   *)
(* cancelled by the loop alone and the loop holds a sender, so that the    *)
(* interrupt and Shutdown are what is left.)                               *)
(***************************************************************************)
\* the loop takes an event of one of the types off the bus and handles it
C22_Handles(types) ==
    /\ loop_pc = "running"
    /\ bus.missed = 0
    /\ bus.q # <<>>
    /\ Head(bus.q).type \in types
    /\ rx_next' = rx_next + 1
    /\ last_event' = Head(bus.q)

\* the loop takes the interrupt
C22_Interrupt == ~cancel /\ cancel' /\ UNCHANGED <<bus, rx_next, last_event>>

\* the loop is told that it lagged
C22_Lagged ==
    /\ loop_pc = "running"
    /\ bus.missed > 0
    /\ rx_next' = rx_next + bus.missed
    /\ last_event' = Lagged(bus.missed)

\* the watcher takes a notification and the file does not load
C22_ReloadFails == notify_rx' = notify_rx - 1 /\ ~load(disk).ok

\* a step in which the loop stops is the interrupt or the handling of
\* Shutdown
C22_StopStep ==
    loop_pc' # loop_pc =>
        /\ loop_pc = "running" /\ loop_pc' = "stopped"
        /\ cancel'
        /\ C22_Handles({"Shutdown"}) \/ C22_Interrupt

\* the steps of the tasks, of the device session and of the watcher, a lag
\* notification, and the handling of what the device session and the
\* tasks publish leave the navigator and the config store alone
C22_FailureStep ==
    /\ ~C22_Handles({"ConfigReloaded", "NavigateTo", "NavigateBack", "NavigateHome"}) =>
          UNCHANGED <<page_manager, shared_config>>
    /\ C22_Lagged => UNCHANGED <<page_manager, shared_config, loop_pc, cancel>>
    /\ C22_ReloadFails => UNCHANGED <<bus, page_manager, shared_config, loop_pc, cancel>>
    /\ C22_Handles({"DeviceDisconnected", "DeviceConnected", "RenderAll", "ButtonDown", "ButtonUp"}) =>
          UNCHANGED <<page_manager, shared_config, loop_pc, cancel>>

\* C22: only the interrupt and a Shutdown event stop the loop, and no
\* failure stops it or changes the navigator or the config store
C22_OnlyShutdownStops == [][C22_StopStep /\ C22_FailureStep]_vars

\* the loop runs on, with the navigator and the store as at startup, after
\* the action of key 1 failed, a poll came back empty, key 4 did not
\* render, the device rejected the images, the device was lost and a
\* reload failed
C22_Witness ==
    /\ loop_pc = "running"
    /\ page_manager = PageManager_new("home")
    /\ shared_config = 6
    /\ \E t \in BagToSet(tasks) : t.result = "Err"
    /\ AllDone
    /\ display.states = NoStates
    /\ DoneFails(4)
    /\ display.handle = "deck"
    /\ \A n \in 1..Len(display.ops) : display.ops[n].key \in {1, -1} => ~display.ops[n].ok
    /\ deck_handle = "none"
    /\ dev_pc = "backoff"
    /\ disk = DiskBroken("syntax")
    /\ notify_rx = 0

\* the loop runs on after a lag notification
C22_LagWitness == loop_pc = "running" /\ last_event = Lagged(1)

(***************************************************************************)
(* run() after the event loop (src/daemon.rs, lines 101-111): the token    *)
(* is cancelled, which every way out of the loop in the model has done     *)
(* already, and the two join handles are awaited under a timeout.          *)
(***************************************************************************)
\* the timeout of the wait, in seconds
SHUTDOWN_TIMEOUT == 5

\* a second passes while run() waits
RunWait ==
    /\ loop_pc = "stopped"
    /\ run_wait < SHUTDOWN_TIMEOUT
    /\ run_wait' = run_wait + 1
    /\ UNCHANGED <<navVars, shared_config, bus, loop_pc, cancel, last_event, rx_next, last_states, cache_lock, tasks>>
    /\ UNCHANGED <<watchVars, devVars, inputs_left>>
    /\ UNCHANGED renderVars

\* the device session and the watcher have returned: both joins are ready
RunJoined ==
    /\ loop_pc = "stopped"
    /\ dev_pc = "stopped"
    /\ watch_pc = "stopped"
    /\ loop_pc' = "returned"
    /\ UNCHANGED <<navVars, shared_config, bus, cancel, run_wait, last_event, rx_next, last_states, cache_lock, tasks>>
    /\ UNCHANGED <<watchVars, devVars, inputs_left>>
    /\ UNCHANGED renderVars

\* a wait without timeout
timeout_never_elapses ==
    /\ FALSE
    /\ UNCHANGED vars

\* the timeout elapses with a join still pending
RunTimeout ==
    /\ loop_pc = "stopped"
    /\ run_wait >= SHUTDOWN_TIMEOUT
    /\ loop_pc' = "returned"
    /\ UNCHANGED <<navVars, shared_config, bus, cancel, run_wait, last_event, rx_next, last_states, cache_lock, tasks>>
    /\ UNCHANGED <<watchVars, devVars, inputs_left>>
    /\ UNCHANGED renderVars

(***************************************************************************)
(* SpecStop: run() from the event loop to its return, with the device      *)
(* session, whose blocking calls are steps of their own, and the watcher.  *)
(* The loop is stopped by the interrupt or by a Shutdown event.  Time      *)
(* passes and run() is scheduled; nothing is assumed of the device         *)
(* session and of the watcher, which may never take another step.          *)
(***************************************************************************)
StopInit == InitWith(StopInputs)

StopNext ==
    \/ DevCancelled \/ DevDiscoverStart \/ DevDiscoverOk({"Pedal"}) \/ DevDiscoverErr
    \/ DevStore \/ DevAnnounce
    \/ DevReadStart \/ DevReadNoData \/ DevReadInput({{}, {0}}) \/ DevReadCancelled
    \/ DevBackoffCancelled
    \/ LoopRecv \/ LoopCtrlC \/ SendShutdown
    \/ FileChange({DiskToml(2)}) \/ WatchReload \/ WatchCancelled
    \/ RunWait \/ RunJoined \/ RunTimeout

SpecStop ==
    /\ StopInit /\ [][StopNext]_vars
    /\ WF_vars(LoopRecv)
    /\ WF_vars(RunWait)
    /\ WF_vars(RunJoined)
    /\ WF_vars(RunTimeout)

(***************************************************************************)
(* C23: once cancellation is signalled, by the interrupt or by a Shutdown  *)
(* event, the event loop exits without handling a further event, and       *)
(* run() returns after waiting at most the timeout for the device session  *)
(* and the watcher, even if one of them never finishes.                    *)
(***************************************************************************)
\* the token is cancelled in the step in which the loop exits, and the
\* wait never lasts longer than the timeout
C23_ExitsAndWaitsBounded ==
    /\ cancel <=> loop_pc # "running"
    /\ run_wait <= SHUTDOWN_TIMEOUT
    /\ loop_pc = "running" => run_wait = 0

\* after the cancellation the loop receives and handles nothing
C23_NoFurtherEvent ==
    cancel => UNCHANGED <<rx_next, last_event, page_manager, shared_config, last_states, tasks>>

\* C23: the cancelled loop handles no further event and run() returns
\* within the timeout, whatever the device session and the watcher do
C23_CancelledRunReturns ==
    /\ []C23_ExitsAndWaitsBounded
    /\ [][C23_NoFurtherEvent]_vars
    /\ cancel ~> (loop_pc = "returned")

\* run() has returned on the timeout: Shutdown was handled with an event
\* still on the bus, the watcher has stopped, and the device session is
\* still inside read_input
C23_Witness ==
    /\ loop_pc = "returned"
    /\ last_event = Shutdown
    /\ bus.q # <<>>
    /\ run_wait = SHUTDOWN_TIMEOUT
    /\ watch_pc = "stopped"
    /\ dev_pc = "read"
    /\ dev_busy

(***************************************************************************)
(* config::expand_env_vars (src/config/mod.rs).  The environment holds     *)
(* the variable V or not; no other variable is set.                        *)
(***************************************************************************)
EnvUnset == [set |-> FALSE, value |-> <<>>]

EnvSet(value) == [set |-> TRUE, value |-> value]

\* std::env::var(name)
env_var(env, name) ==
    IF env.set /\ name = <<"V">> THEN [ok |-> TRUE, value |-> env.value]
    ELSE [ok |-> FALSE, value |-> <<>>]

\* char::is_alphanumeric() || c == '_'
is_name_char(c) == c \in {"V", "o", "k", "_"}

\* chars.by_ref().take_while(pred) from position i: the position of the
\* first character that fails pred, which take_while consumes as well, or
\* Len(input) + 1 at the end of the input (braced: pred is c != '}', else
\* is_name_char)
take_while_stop(input, i, braced) ==
    LET fails == {j \in i..Len(input) :
                     IF braced THEN input[j] = "}" ELSE ~is_name_char(input[j])}
    IN  IF fails = {} THEN Len(input) + 1 ELSE CHOOSE j \in fails : \A k \in fails : j <= k

\* the while loop from position i on: what it appends to result
RECURSIVE expand_from(_, _, _)
expand_from(input, env, i) ==
    IF i > Len(input) THEN <<>>
    ELSE IF input[i] # "$" THEN <<input[i]>> \o expand_from(input, env, i + 1)
    ELSE IF i + 1 <= Len(input) /\ input[i + 1] = "{"
    THEN LET stop == take_while_stop(input, i + 2, TRUE)
             var_name == SubSeq(input, i + 2, stop - 1)
         IN  (IF env_var(env, var_name).ok THEN env_var(env, var_name).value
              ELSE <<"$", "{">> \o var_name \o <<"}">>)
                 \o expand_from(input, env, stop + 1)
    ELSE LET stop == take_while_stop(input, i + 1, FALSE)
             var_name == SubSeq(input, i + 1, stop - 1)
         IN  (IF var_name = <<>> THEN <<"$">>
              ELSE IF env_var(env, var_name).ok THEN env_var(env, var_name).value
              ELSE <<"$">> \o var_name)
                 \o expand_from(input, env, stop + 1)

expand_env_vars(input, env) == expand_from(input, env, 1)

(***************************************************************************)
(* SpecEnv: expand_env_vars called with every string of up to MaxEnvLen    *)
(* characters over EnvChars, with V unset and with V set to "ok".          *)
(***************************************************************************)
EnvChars == {"$", "{", "}", "V", "/"}

Environments == {EnvUnset, EnvSet(<<"o", "k">>)}

EnvInit ==
    \E input \in SeqsUpTo(EnvChars, MaxEnvLen), env \in Environments :
        /\ page_manager = PageManager_new(Snapshots[StartCfg].home_page)
        /\ InitState(StartCfg, SourceOff, 0, [input |-> input, env |-> env], NoRet)

\* a call of expand_env_vars and its return
ExpandCall ==
    /\ fn_ret = NoRet
    /\ fn_ret' = [kind |-> "String", s |-> expand_env_vars(fn_arg.input, fn_arg.env)]
    /\ UNCHANGED <<navVars, loopVars, watchVars, devVars, inputs_left>>
    /\ UNCHANGED <<renders, ha, display, rb_call, rb_ret, fn_arg>>

EnvNext == ExpandCall

SpecEnv == EnvInit /\ [][EnvNext]_vars

(***************************************************************************)
(* C24: for an input in which no referenced variable is set                *)
(* expand_env_vars returns the input unchanged, for the ${VAR} and the     *)
(* $VAR form and including the characters that follow the reference;       *)
(* when VAR is set, ${VAR} is replaced by its value and every other        *)
(* character is preserved in order.  The claim is read for inputs whose    *)
(* every '$' starts a reference: $V, or ${ followed by name characters     *)
(* and the closing brace.                                                  *)
(***************************************************************************)
\* the '$' at position i starts ${name}
C24_Braced(input, i) ==
    /\ i + 1 <= Len(input) /\ input[i + 1] = "{"
    /\ \E j \in (i + 2)..Len(input) :
          /\ input[j] = "}"
          /\ \A k \in (i + 2)..(j - 1) : is_name_char(input[k])

\* the '$' at position i starts $name
C24_Bare(input, i) == i + 1 <= Len(input) /\ is_name_char(input[i + 1])

\* every '$' starts a reference
C24_WellFormed(input) ==
    \A i \in 1..Len(input) : input[i] = "$" => C24_Braced(input, i) \/ C24_Bare(input, i)

\* the input with every ${V} replaced by value
RECURSIVE C24_Replaced(_, _, _)
C24_Replaced(input, value, i) ==
    IF i > Len(input) THEN <<>>
    ELSE IF i + 3 <= Len(input) /\ SubSeq(input, i, i + 3) = <<"$", "{", "V", "}">>
    THEN value \o C24_Replaced(input, value, i + 4)
    ELSE <<input[i]>> \o C24_Replaced(input, value, i + 1)

\* C24: with no referenced variable set the input comes back unchanged;
\* with V set and every reference of the braced form, ${V} is replaced by
\* the value and the rest is kept in order
C24_UnsetKeptSetReplaced ==
    fn_ret # NoRet /\ C24_WellFormed(fn_arg.input) =>
        /\ (~fn_arg.env.set => fn_ret.s = fn_arg.input)
        /\ (fn_arg.env.set /\ (\A i \in 1..Len(fn_arg.input) :
                                   fn_arg.input[i] = "$" => C24_Braced(fn_arg.input, i)) =>
               fn_ret.s = C24_Replaced(fn_arg.input, fn_arg.env.value, 1))

(***************************************************************************)
(* C25: go_back() returns true exactly when current_page() after the call  *)
(* differs from current_page() before the call.                            *)
(***************************************************************************)
\* a step that is a call of go_back: the only call that returns a bool
C25_GoBackStep == nav_ret' \in {"true", "false"}

\* C25: the return value of go_back tells whether the current page changed
C25_TrueIffPageChanged ==
    [][C25_GoBackStep =>
          (nav_ret' = "true" <=> current_page(page_manager') # current_page(page_manager))]_vars

(***************************************************************************)
(* SpecLoad: SpecWatch started as main does (src/main.rs, line 43): the    *)
(* file is loaded, and the daemon runs with the snapshot only if the load  *)
(* succeeds.                                                               *)
(***************************************************************************)
LoadInit ==
    \E file \in DiskContents :
        /\ load(file).ok
        /\ page_manager = PageManager_new(Snapshots[load(file).cfg].home_page)
        /\ InitFrom(load(file).cfg, SourceOff, MaxInputs)

SpecLoad == LoadInit /\ [][WatchNext]_vars

(***************************************************************************)
(* C26: every snapshot the config store ever holds, the initial one and    *)
(* every reloaded one, has brightness <= 100 and every button key <= 14;   *)
(* load rejects a file that violates either bound with a configuration     *)
(* error, so that every configured button falls into one of the 15         *)
(* rendered key slots.                                                     *)
(***************************************************************************)
\* the snapshot's brightness or one of its keys is out of range
C26_OutOfRange(c) ==
    \/ c.brightness > 100
    \/ \E p \in DOMAIN c.pages : \E i \in 1..Len(c.pages[p]) : c.pages[p][i].key > 14

\* C26: the store holds a snapshot within both bounds, whose buttons all
\* have a rendered key slot, and the file as it is, if it parses and is
\* out of range, is rejected by load with a configuration error
C26_StoreWithinBounds ==
    /\ ~C26_OutOfRange(Snapshots[shared_config])
    /\ \A p \in DOMAIN Snapshots[shared_config].pages :
          \A i \in 1..Len(Snapshots[shared_config].pages[p]) :
              Snapshots[shared_config].pages[p][i].key \in 0..(NUM_KEYS - 1)
    /\ disk.kind = "toml" /\ C26_OutOfRange(Snapshots[disk.cfg]) =>
          ~load(disk).ok /\ load(disk).err = "Config"

\* the store holds a reloaded snapshot, and the watcher has since found
\* the file with a key out of range and published nothing
C26_Witness ==
    /\ Len(bus.log) = 2
    /\ bus.log[1].type = "ConfigReloaded"
    /\ bus.log[2] = RenderAll
    /\ shared_config = bus.log[1].cfg
    /\ disk = DiskToml(5)
    /\ notify_rx = 0
    /\ bus.q = <<>>

(***************************************************************************)
(* C27: no task holds the entity cache's mutex across a suspension point   *)
(* or an I/O call: the loop's optimistic flip and the render-all's cache   *)
(* update each take and release the lock within one step that does not     *)
(* suspend, and the poll has returned before the lock is taken.  The       *)
(* states of the model are the points at which the tasks are suspended.    *)
(***************************************************************************)
\* a render-all is inside its poll
C27_Polling == \E t \in BagToSet(renders) : t.kind = "all" /\ t.pc = "fetch"

\* the cache changes only in a step that finds the lock free and leaves
\* it free
C27_LockedWithinStep == last_states' # last_states => cache_lock = "" /\ cache_lock' = ""

SnapNext ==
    \/ DevDiscoverOk({"Pedal"}) \/ DevStore \/ DevAnnounce \/ DevReadInput({{}, {1}})
    \/ DevReadError \/ DevClear \/ DevDisconnected
    \/ LoopRecv \/ TaskExecute \/ TaskSettle
    \/ FileChange({DiskToml(2)}) \/ WatchReload
    \/ RenderSingle({{}}) \/ RenderFetch({"ok"}) \/ RenderAllFinish({{}})

SpecSnap == Init /\ [][SnapNext]_vars

(***************************************************************************)
(* C28: the config store is written only by the loop's handling of         *)
(* ConfigReloaded and the device handle cell only by the device session;   *)
(* each event handler and each render task works on one snapshot, loaded   *)
(* once for the whole operation, never on a mix of an old and a new one.   *)
(***************************************************************************)
\* the store changes only when the loop handles ConfigReloaded, to the
\* event's snapshot; the cell changes only in the session's two stores
C28_SingleWriters ==
    /\ shared_config' # shared_config =>
          /\ loop_pc = "running" /\ bus.missed = 0 /\ bus.q # <<>>
          /\ Head(bus.q).type = "ConfigReloaded"
          /\ last_event' = Head(bus.q)
          /\ shared_config' = Head(bus.q).cfg
    /\ deck_handle' # deck_handle =>
          \/ dev_pc = "store" /\ dev_pc' = "announce" /\ deck_handle' = "deck"
          \/ dev_pc = "clear" /\ dev_pc' = "disconnected" /\ deck_handle' = "none"

\* a render task a handler spawns gets the snapshot the store holds in
\* that step, and for a render-all a page of that snapshot
C28_SpawnedOnStore ==
    \A t \in BagToSet(renders') \ BagToSet(renders) :
        t.pc \in {"fetch"} \/ t.kind = "single" =>
            /\ t.cfg = shared_config'
            /\ contains_key(t.cfg, t.page)

\* every image of a finished task has the colors its button has under the
\* task's own snapshot: the buttons and the defaults of that snapshot
C28_OneSnapshot ==
    display.kind # "" =>
        \A n \in 1..Len(display.images) :
            LET image == display.images[n]
            IN  IF image.blank THEN DoneButtons(image.key) = {}
                ELSE /\ DoneButtons(image.key) # {}
                     /\ image.bg = pick_background(DoneButton(image.key),
                                       Snapshots[display.cfg].defaults, display.states)
                     /\ image.text_color = pick_text_color(DoneButton(image.key),
                                               Snapshots[display.cfg].defaults, display.states)

\* C28: one writer each for the store and the cell, and one snapshot for
\* each handler and each render task
C28_SingleWriterOneSnapshot ==
    /\ [][C28_SingleWriters /\ C28_SpawnedOnStore]_vars
    /\ []C28_OneSnapshot

\* a render-all spawned under CfgFull has finished after the store went
\* to CfgNoB: its images have the default colors of CfgFull
C28_Witness ==
    /\ display.kind = "all"
    /\ display.cfg = 1
    /\ shared_config = 2
    /\ Len(display.images) = NUM_KEYS
    /\ display.images[1].bg = CfgFull.defaults.background
    /\ CfgFull.defaults.background # Snapshots[shared_config].defaults.background

(***************************************************************************)
(* The pixel buffer of a button (src/render/mod.rs, canvas.rs, icon.rs,    *)
(* text.rs).  A pixmap is its size, its fill and the draws made on it, in  *)
(* order; its data are width * height pixels of four bytes (RGBA).  What   *)
(* a draw of tiny_skia, image or ab_glyph does to the pixels is a function *)
(* of the pixmap and the draw's arguments.  A path is the sequence of its  *)
(* components, a file system a function from paths to file contents.       *)
(***************************************************************************)
BUTTON_SIZE == 72

ICON_MAX == 48

ICON_TOP_PAD == 4

\* the characters of the color strings in use
chars(color) ==
    CASE color = "#1a1a2e" -> <<"#", "1", "a", "1", "a", "2", "e">>
      [] color = "#ffffff" -> <<"#", "f", "f", "f", "f", "f", "f">>
      [] color = "#000000" -> <<"#", "0", "0", "0", "0", "0", "0">>
      [] color = "#00aa00" -> <<"#", "0", "0", "a", "a", "0", "0">>
      [] color = "#fff" -> <<"#", "f", "f", "f">>
      [] color = "blue" -> <<"b", "l", "u", "e">>

NoFile == [kind |-> "none", width |-> 0, height |-> 0, id |-> ""]

\* a file that is no image
Junk == [kind |-> "junk", width |-> 0, height |-> 0, id |-> ""]

\* a PNG image of the given size
Png(width, height, id) == [kind |-> "png", width |-> width, height |-> height, id |-> id]

\* Path::is_absolute
is_absolute(path) == path # <<>> /\ path[1] = "/"

\* Path::join
join(dir, path) == IF is_absolute(path) THEN path ELSE dir \o path

\* Path::exists
exists(fs, path) == path \in DOMAIN fs /\ fs[path].kind # "none"

NoPixmap == [width |-> 0, height |-> 0, fill |-> <<>>, draws |-> <<>>]

\* Pixmap::new: transparent, None when a side is 0
Pixmap_new(width, height) ==
    IF width = 0 \/ height = 0 THEN NoPixmap
    ELSE [width |-> width, height |-> height, fill |-> <<0, 0, 0, 0>>, draws |-> <<>>]

\* Pixmap::data: four bytes a pixel
data_len(pm) == pm.width * pm.height * 4

Draw(op, what, x, y, color, size, font) ==
    [op |-> op, what |-> what, x |-> x, y |-> y, color |-> color, size |-> size, font |-> font]

PixErr(kind) == [kind |-> kind, pm |-> NoPixmap]

PixOk(pm) == [kind |-> "Ok", pm |-> pm]

\* create_canvas, once the color is parsed: a new pixmap of BUTTON_SIZE a
\* side, filled with the color
fill_canvas(color) ==
    IF color.kind # "Ok" THEN PixErr(color.kind)
    ELSE PixOk([Pixmap_new(BUTTON_SIZE, BUTTON_SIZE) EXCEPT
                    !.fill = <<color.r, color.g, color.b, 255>>])

\* a canvas that is the pixmap of the render before, when there was one
create_canvas_reused(bg_hex) ==
    IF Len(fn_ret) > 0 /\ fn_ret[Len(fn_ret)].out.kind = "Ok"
    THEN PixOk(fn_ret[Len(fn_ret)].out.pixels)
    ELSE fill_canvas(parse_hex_color(chars(bg_hex)))

\* create_canvas
create_canvas(bg_hex) == fill_canvas(parse_hex_color(chars(bg_hex)))

\* composite: draw_pixmap of src at (x, y)
composite(canvas, src, x, y) ==
    [canvas EXCEPT !.draws = Append(@, Draw("pixmap", src, x, y, "", 0, ""))]

\* load_icon: the decoded image, scaled down to ICON_MAX on its longer side
load_icon(file) ==
    IF file.kind # "png" THEN PixErr("Icon")
    ELSE LET longest == IF file.width >= file.height THEN file.width ELSE file.height
             new_w == IF longest <= ICON_MAX THEN file.width
                      ELSE (file.width * ICON_MAX) \div longest
             new_h == IF longest <= ICON_MAX THEN file.height
                      ELSE (file.height * ICON_MAX) \div longest
         IN  IF Pixmap_new(new_w, new_h) = NoPixmap THEN PixErr("Render")
             ELSE PixOk([Pixmap_new(new_w, new_h) EXCEPT
                             !.draws = <<Draw("image", file.id, 0, 0, "", 0, "")>>])

\* center_x
center_x(icon_width) == (BUTTON_SIZE - icon_width) \div 2

\* icon_y
icon_y(has_label) == IF has_label THEN ICON_TOP_PAD ELSE (BUTTON_SIZE - ICON_MAX) \div 2

\* font_data: the embedded font of the name, Inter for any other name
font_data(name) ==
    CASE name = "roboto-slab" -> "RobotoSlab-Bold"
      [] name \in {"jb-extrabold", "jetbrains-mono"} -> "JetBrainsMonoNerdFont-ExtraBold"
      [] name \in {"jb-bold", "jetbrains-bold"} -> "JetBrainsMonoNerdFont-Bold"
      [] OTHER -> "Inter-Regular"

\* rasterize_glyphs: the glyphs of the text blended onto the pixmap
rasterize_glyphs(pm, anchor, text, color, font_size, font) ==
    IF color.kind # "Ok" THEN PixErr(color.kind)
    ELSE PixOk([pm EXCEPT !.draws =
                    Append(@, Draw(anchor, text, 0, 0, <<color.r, color.g, color.b>>,
                                   font_size, font))])

\* render_text and render_text_at_bottom: the glyphs of the text, blended
\* in the color Rgb::from_hex makes of the parsed color, centered or on
\* the bottom line; the embedded fonts load
render_text(pm, anchor, text, color_hex, font_size, font_name) ==
    rasterize_glyphs(pm, anchor, text, parse_hex_color(chars(color_hex)), font_size,
                     font_data(font_name))

\* render_button, the icon once loaded: composited when the file exists
\* and decodes
\* an icon step that counts every named icon as rendered
composite_icon_named(pm, button, found, icon_pm) ==
    [icon_rendered |-> button.icon # <<>>,
     pm |-> IF found /\ icon_pm.kind = "Ok"
            THEN composite(pm, icon_pm.pm, center_x(icon_pm.pm.width), icon_y(button.label # ""))
            ELSE pm]

composite_icon(pm, button, found, icon_pm) ==
    IF found /\ icon_pm.kind = "Ok"
    THEN [icon_rendered |-> TRUE,
          pm |-> composite(pm, icon_pm.pm, center_x(icon_pm.pm.width),
                           icon_y(button.label # ""))]
    ELSE [icon_rendered |-> FALSE, pm |-> pm]

\* render_button, the icon
render_icon(pm, button, config_dir, fs) ==
    composite_icon(pm, button,
                   button.icon # <<>> /\ exists(fs, join(config_dir, button.icon)),
                   load_icon(fs[join(config_dir, button.icon)]))

BufErr(kind) == [kind |-> kind, len |-> 0, pixels |-> NoPixmap]

\* pm.data().to_vec()
to_vec(drawn) ==
    IF drawn.kind # "Ok" THEN BufErr(drawn.kind)
    ELSE [kind |-> "Ok", len |-> data_len(drawn.pm), pixels |-> drawn.pm]

\* render_button, the label: under the icon in at most 12 px, or centered
render_label(icon, label, text_color, font_size, font_name) ==
    IF label = "" THEN PixOk(icon.pm)
    ELSE IF icon.icon_rendered
    THEN render_text(icon.pm, "bottom", label, text_color,
                     IF font_size <= 12 THEN font_size ELSE 12, font_name)
    ELSE render_text(icon.pm, "center", label, text_color, font_size, font_name)

\* render_button, on the canvas created
render_on(canvas, button, defaults, config_dir, entity_states, fs) ==
    IF canvas.kind # "Ok" THEN BufErr(canvas.kind)
    ELSE to_vec(render_label(render_icon(canvas.pm, button, config_dir, fs), button.label,
                             pick_text_color(button, defaults, entity_states),
                             IF button.font_size # 0 THEN button.font_size
                             ELSE defaults.font_size,
                             IF button.font # "" THEN button.font ELSE defaults.font))

\* render_button, to the bytes it returns: the canvas in the background
\* picked, the icon, the label.  A button's absent font_size is 0, an
\* absent font "", an absent icon the empty path
render_button_data(button, defaults, config_dir, entity_states, fs) ==
    render_on(create_canvas(pick_background(button, defaults, entity_states)),
              button, defaults, config_dir, entity_states, fs)

(***************************************************************************)
(* SpecPixels: render_button called up to MaxRenders times with the same   *)
(* button, defaults, config directory and resolved states, while the files *)
(* the icon paths name are written up to MaxWrites times, inside the       *)
(* config directory and outside it; at first there is none.  fn_arg holds  *)
(* the arguments and the file system, fn_ret the returns so far, each with *)
(* the file system of its call.                                            *)
(***************************************************************************)
ConfigDir == <<"/", "etc", "deckd">>

IconPaths == {<<>>, <<"icon.png">>, <<"/", "usr", "icon.png">>}

FsPaths == {join(ConfigDir, path) : path \in IconPaths \ {<<>>}}

FileContents == {NoFile, Junk, Png(16, 16, "rocket"), Png(96, 96, "bulb")}

PixelDefaults == Defaults @@ [font_size |-> 14, font |-> "roboto-slab"]

PixelButtons ==
    {[button EXCEPT !.label = label, !.background = bg] @@
         [icon |-> icon, font_size |-> 0, font |-> ""] :
        button \in {Btn(0, "", "none", ""), Lit(Btn(0, "light", "none", ""))},
        label \in {"", "label"}, bg \in {"", "blue"}, icon \in IconPaths}

PixelsInit ==
    \E button \in PixelButtons, state \in {"on", "off"} :
        /\ page_manager = PageManager_new(Snapshots[StartCfg].home_page)
        /\ InitState(StartCfg, SourceOff, MaxWrites,
                     [button |-> button, defaults |-> PixelDefaults, config_dir |-> ConfigDir,
                      entity_states |-> [NoStates EXCEPT !["light"] = state],
                      fs |-> [path \in FsPaths |-> NoFile]],
                     <<>>)

\* a call of render_button and its return
RenderDataCall ==
    /\ Len(fn_ret) < MaxRenders
    /\ fn_ret' = Append(fn_ret,
                        [fs |-> fn_arg.fs,
                         out |-> render_button_data(fn_arg.button, fn_arg.defaults,
                                                    fn_arg.config_dir, fn_arg.entity_states,
                                                    fn_arg.fs)])
    /\ UNCHANGED <<navVars, loopVars, watchVars, devVars, inputs_left>>
    /\ UNCHANGED <<renders, ha, display, rb_call, rb_ret, fn_arg>>

\* somebody writes or removes a file
IconWrite(contents) ==
    /\ inputs_left > 0
    /\ inputs_left' = inputs_left - 1
    /\ \E path \in FsPaths, file \in contents :
          /\ fn_arg.fs[path] # file
          /\ fn_arg' = [fn_arg EXCEPT !.fs[path] = file]
    /\ UNCHANGED <<navVars, loopVars, watchVars, devVars>>
    /\ UNCHANGED <<renders, ha, display, rb_call, rb_ret, fn_ret>>

PixelsNext ==
    \/ RenderDataCall
    \/ IconWrite(FileContents)

SpecPixels == PixelsInit /\ [][PixelsNext]_vars

(***************************************************************************)
(* C29: rendering the same button definition, style defaults, config       *)
(* directory contents and resolved entity states twice yields              *)
(* byte-identical buffers of exactly 72*72*4 bytes.  Every buffer has that *)
(* size, and no render depends on an earlier one; but a button whose icon  *)
(* path is absolute is drawn from a file outside the config directory, so  *)
(* the two buffers are identical when that file is the same too.           *)
(***************************************************************************)
\* the files under the config directory are the same in both calls
C29_SameConfigDir(a, b) ==
    \A path \in FsPaths :
        SubSeq(path, 1, Len(ConfigDir)) = ConfigDir => a.fs[path] = b.fs[path]

\* the file the button's icon names is the same in both calls
C29_SameIconFile(a, b) ==
    fn_arg.button.icon # <<>> =>
        a.fs[join(ConfigDir, fn_arg.button.icon)] = b.fs[join(ConfigDir, fn_arg.button.icon)]

C29_ExactSize ==
    \A i \in 1..Len(fn_ret) :
        fn_ret[i].out.kind = "Ok" => fn_ret[i].out.len = 72 * 72 * 4

PagesNext ==
    \/ DevDiscoverOk({"Pedal"}) \/ DevStore \/ DevAnnounce \/ DevReadInput({{}, {0}})
    \/ LoopRecv \/ TaskExecute
    \/ FileChange({DiskToml(2)}) \/ WatchReload
    \/ RenderFetch({"ok"}) \/ RenderAllFinish({{}})

SpecPages == Init /\ [][PagesNext]_vars

(***************************************************************************)
(* C30: whenever no render task is in flight and no event is pending, the  *)
(* images last pushed to a connected device are those of the navigator's   *)
(* current page under the current snapshot.                                *)
(***************************************************************************)
\* nothing is running or waiting: no task, no event on the bus, no change
\* notification, and the session has announced its device
C30_Quiet ==
    /\ renders = EmptyBag
    /\ tasks = EmptyBag
    /\ bus.q = <<>>
    /\ bus.missed = 0
    /\ notify_rx = 0
    /\ dev_pc = "read"
    /\ deck_handle = "deck"

C30_LastPushedIsCurrent ==
    (C30_Quiet /\ display.kind = "all" /\ display.handle = "deck") =>
        /\ display.cfg = shared_config
        /\ display.page = current_page(page_manager)
        /\ display.images =
              render_images(shared_config, current_page(page_manager), display.states)

(***************************************************************************)
(* SpecStart: run() from the spawn of the device session and the watcher   *)
(* (src/daemon.rs, lines 35-36), before the loop's receiver exists (line   *)
(* 38).  The runtime is multi-threaded: a spawned task runs at once.       *)
(***************************************************************************)
\* let mut rx = tx.subscribe(), and the loop starts
RunSubscribe ==
    /\ loop_pc = "spawned"
    /\ loop_pc' = "running"
    /\ bus' = [bus EXCEPT !.subscribed = TRUE]
    /\ UNCHANGED <<navVars, shared_config, cancel, run_wait, last_event, rx_next, last_states, cache_lock, tasks>>
    /\ UNCHANGED <<watchVars, devVars, inputs_left>>
    /\ UNCHANGED renderVars

StartInit ==
    /\ page_manager = PageManager_new(Snapshots[StartCfg].home_page)
    /\ InitAt("spawned", StartCfg, SourceOff, MaxInputs, <<>>, NoRet)

StartNext ==
    \/ RunSubscribe
    \/ DevDiscoverOk({"Pedal"}) \/ DevStore \/ DevAnnounce \/ DevReadInput({{}, {0}})
    \/ LoopRecv \/ TaskExecute
    \/ FileChange({DiskToml(2)}) \/ WatchReload
    \/ RenderFetch({"ok"}) \/ RenderAllFinish({{}})

SpecStart == StartInit /\ [][StartNext]_vars

(***************************************************************************)
(* C31: every DeviceConnected the device session publishes, the first one  *)
(* after startup included, is received by the event loop (absent lag), so  *)
(* every connection is followed by a full render of the current page.      *)
(***************************************************************************)
\* the session has published DeviceConnected and reads the device
C31_Connected ==
    /\ dev_pc = "read"
    /\ deck_handle = "deck"
    /\ \E n \in 1..Len(bus.log) : bus.log[n] = DeviceConnected

\* once the loop has taken all that waits on the bus, it has handled the
\* DeviceConnected and a render-all runs or has run
C31_ConnectedIsRendered ==
    (C31_Connected /\ loop_pc = "running" /\ bus.q = <<>> /\ bus.missed = 0) =>
        /\ rx_next = Len(bus.log)
        /\ \/ display.kind = "all"
           \/ \E t \in BagToSet(renders) : t.kind = "all"

(***************************************************************************)
(* SpecFlip: SpecRender's daemon with the entity off at the source, where  *)
(* every poll of a render-all returns before the user's first key press:   *)
(* whatever a render-all holds was fetched before any optimistic flip.     *)
(***************************************************************************)
\* no key was pressed yet
Unpressed == \A n \in 1..Len(bus.log) : bus.log[n].type # "ButtonDown"

\* a poll returns while no key was pressed yet
FetchBeforePress ==
    /\ Unpressed
    /\ RenderFetch({"ok"})

FlipNext ==
    \/ DevDiscoverOk({"Pedal"}) \/ DevStore \/ DevAnnounce \/ DevReadInput({{}, {1}})
    \/ LoopRecv \/ TaskExecute \/ TaskSettle
    \/ RenderSingle({{}})
    \/ FetchBeforePress \/ RenderAllFinish({{}})

SpecFlip == Init /\ [][FlipNext]_vars

(***************************************************************************)
(* C32: a poll result fetched before an optimistic flip of the same entity *)
(* never overwrites the flipped cache value.  Under SpecFlip the cache     *)
(* holds nothing or "off" for the entity before the press of key 1, so the *)
(* flip makes it "on", and every poll result was fetched before the flip.   *)
(***************************************************************************)
C32_FlipNotOverwritten ==
    \A n \in 1..Len(bus.log) :
        (bus.log[n] = ButtonDown(1) /\ rx_next >= n) => last_states["light"] = "on"

(***************************************************************************)
(* C33: at every reachable state the bottom element of the page stack      *)
(* equals the navigator's home id, also after a reload that changes the    *)
(* home page while the current page still exists.                          *)
(***************************************************************************)
C33_BottomIsHome ==
    /\ Len(page_manager.stack) >= 1
    /\ page_manager.stack[1] = page_manager.home_page

(***************************************************************************)
(* C34: the device handle cell is non-empty exactly while the device       *)
(* session is connected: from the store before DeviceConnected is          *)
(* published to the clearing store before DeviceDisconnected is published; *)
(* it is empty before the first connect, in every backoff wait and after   *)
(* the session has stopped on cancellation.                                *)
(***************************************************************************)
C34_HandleIffConnected ==
    deck_handle = "deck" <=> dev_pc \in {"announce", "read", "clear"}

(***************************************************************************)
(* C35: handling NavigateTo(id) pushes id and publishes exactly one        *)
(* RenderAll when id is a page of the current snapshot, and otherwise      *)
(* leaves the navigator unchanged and publishes nothing; NavigateBack      *)
(* publishes a RenderAll only when go_back popped (the stack held more     *)
(* than one entry); NavigateHome resets the stack to the single home entry *)
(* and always publishes exactly one RenderAll.                             *)
(***************************************************************************)
C35_NavigateTo ==
    (bus.q # <<>> /\ Head(bus.q).type = "NavigateTo" /\ LoopHandles(Head(bus.q))) =>
        IF contains_key(shared_config, Head(bus.q).page)
        THEN /\ page_manager' = [page_manager EXCEPT !.stack = Append(@, Head(bus.q).page)]
             /\ bus' = send(Received(bus), RenderAll)
        ELSE /\ page_manager' = page_manager
             /\ bus' = Received(bus)

C35_NavigateBack ==
    LoopHandles(NavigateBack) =>
        IF Len(page_manager.stack) > 1
        THEN /\ page_manager' = [page_manager EXCEPT !.stack = ButLast(@)]
             /\ bus' = send(Received(bus), RenderAll)
        ELSE /\ page_manager' = page_manager
             /\ bus' = Received(bus)

C35_NavigateHome ==
    LoopHandles(NavigateHome) =>
        /\ page_manager' = [page_manager EXCEPT !.stack = <<page_manager.home_page>>]
        /\ bus' = send(Received(bus), RenderAll)

C35_NavigationHandled ==
    [][C35_NavigateTo /\ C35_NavigateBack /\ C35_NavigateHome]_vars

\* a NavigateTo of an id that is no page of the snapshot was handled: the
\* navigator is where it was and nothing waits on the bus
C35_Witness ==
    /\ last_event.type = "NavigateTo"
    /\ ~contains_key(shared_config, last_event.page)
    /\ current_page(page_manager) # last_event.page
    /\ bus.q = <<>>
    /\ bus.log[Len(bus.log)] = last_event

(***************************************************************************)
(* SpecQuiet: the event loop with its periodic tick, its action tasks and  *)
(* the watcher, started with CfgHomeB, which has no entity-bound button    *)
(* on any page; the file is written again with the same contents.  The     *)
(* loop takes a pending event, a spawned task runs.                        *)
(***************************************************************************)
QuietInit ==
    /\ page_manager = PageManager_new(Snapshots[3].home_page)
    /\ InitFrom(3, SourceOff, MaxInputs)

QuietNext ==
    \/ DevDiscoverOk({"Pedal"}) \/ DevStore \/ DevAnnounce \/ DevReadInput({{}, {0}, {1}})
    \/ LoopRecv \/ LoopTick \/ TaskExecute
    \/ FileChange({DiskToml(3)}) \/ WatchReload
    \/ RenderFetch({"ok"}) \/ RenderAllFinish({{}})

SpecQuiet ==
    /\ QuietInit /\ [][QuietNext]_vars
    /\ WF_vars(LoopRecv)
    /\ WF_vars(TaskExecute)

(***************************************************************************)
(* C36: handling RenderAll, RenderButton, ButtonUp or DeviceDisconnected   *)
(* publishes no event and changes neither the navigator nor the config     *)
(* store, and every event of external origin (key press, device connect,   *)
(* reload) causes only a finite chain of follow-up publications: with no   *)
(* new external input and no stateful page the bus becomes quiet and       *)
(* stays quiet.  Nothing in the daemon publishes RenderButton.             *)
(***************************************************************************)
C36_Silent ==
    (bus.q # <<>> /\ LoopHandles(Head(bus.q))
     /\ Head(bus.q).type \in {"RenderAll", "RenderButton", "ButtonUp", "DeviceDisconnected"}) =>
        /\ bus' = Received(bus)
        /\ UNCHANGED <<page_manager, shared_config>>

\* nothing waits on the bus and no action task is left to publish
C36_Quiet == bus.q = <<>> /\ bus.missed = 0 /\ tasks = EmptyBag

\* how many publications an event can still cause, one after another: a
\* key press spawns a task that publishes a navigation event or RenderAll,
\* a navigation event, a connect or a reload is followed by RenderAll
C36_Rank(e) ==
    IF e.type = "ButtonDown" THEN 2
    ELSE IF e.type \in {"NavigateTo", "NavigateBack", "NavigateHome",
                        "DeviceConnected", "ConfigReloaded"} THEN 1
    ELSE 0

\* what the loop publishes while it handles an event, and what an action
\* task publishes, can cause less than the event behind it
C36_Descends ==
    \A n \in (Len(bus.log) + 1)..Len(bus'.log) :
        /\ (rx_next' # rx_next /\ bus.missed = 0) =>
               C36_Rank(bus'.log[n]) < C36_Rank(Head(bus.q))
        /\ (rx_next' = rx_next /\ tasks' # tasks) => C36_Rank(bus'.log[n]) < 2

TwinsInit ==
    \E source \in [Entities -> {"on", "off"}] :
        /\ page_manager = PageManager_new(Snapshots[8].home_page)
        /\ InitFrom(8, source, MaxInputs)

TwinsNext ==
    \/ DevDiscoverOk({"Pedal"}) \/ DevStore \/ DevAnnounce \/ DevReadInput({{}, {0}, {1}})
    \/ LoopRecv \/ TaskExecute \/ TaskSettle
    \/ RenderSingle({{}})
    \/ RenderFetch({"ok"}) \/ RenderAllFinish({{}})

SpecTwins == TwinsInit /\ [][TwinsNext]_vars

(***************************************************************************)
(* C37: on any page, also one where several buttons share a key index,     *)
(* the button that render-all draws on key K is the button whose action    *)
(* and optimistic flip ButtonDown(K) triggers under the same snapshot and  *)
(* page: the first entry of the page's button list with that key index.    *)
(***************************************************************************)
\* the position of the first entry with the key index, 0 when there is none
C37_First(buttons, key) ==
    IF \A i \in 1..Len(buttons) : buttons[i].key # key THEN 0
    ELSE CHOOSE i \in 1..Len(buttons) :
            /\ buttons[i].key = key
            /\ \A j \in 1..(i - 1) : buttons[j].key # key

\* the loop handles ButtonDown(K): the task it spawns runs the action of
\* the first entry, the flip and the single-key render are that entry's
C37_PressStep ==
    (rx_next' # rx_next /\ last_event'.type = "ButtonDown"
     /\ contains_key(shared_config, current_page(page_manager))) =>
        LET buttons == Snapshots[shared_config].pages[current_page(page_manager)]
            i == C37_First(buttons, last_event'.key)
        IN  IF i = 0
            THEN tasks' = tasks /\ renders' = renders /\ last_states' = last_states
            ELSE /\ tasks' (-) tasks =
                       IF buttons[i].on_press.action # "none"
                       THEN SetToBag({ActionTask(buttons[i])}) ELSE EmptyBag
                 /\ IF buttons[i].state_entity # ""
                    THEN /\ last_states' =
                               [last_states EXCEPT ![buttons[i].state_entity] =
                                   IF @ = "on" THEN "off" ELSE "on"]
                         /\ renders' (-) renders =
                               SetToBag({SingleRender(shared_config, current_page(page_manager),
                                                      i, last_event'.key, last_states')})
                    ELSE renders' = renders /\ last_states' = last_states

\* a render-all finishes: the image of every key that has a button is the
\* image of the first entry with that key index
C37_DrawStep ==
    \A t \in BagToSet(renders) :
        (t.kind = "all" /\ t.pc = "render" /\ renders' = renders (-) SetToBag({t})) =>
            \A key \in 0..(NUM_KEYS - 1) :
                LET buttons == Snapshots[t.cfg].pages[t.page]
                    i == C37_First(buttons, key)
                    drawn == {n \in 1..Len(display'.images) : display'.images[n].key = key}
                IN  i # 0 =>
                        \A n \in drawn :
                            display'.images[n] =
                                Image(key, render_button(buttons[i], Snapshots[t.cfg].defaults,
                                                         display'.states), FALSE)

C37_FirstEntryBoth == [][C37_PressStep /\ C37_DrawStep]_vars

\* on the page with two buttons at key 0 and two at key 1: key 1 was
\* pressed and the first entry's action task runs, and a render-all has
\* drawn the first entries' backgrounds on keys 0 and 1
C37_Witness ==
    /\ shared_config = 8
    /\ current_page(page_manager) = "home"
    /\ last_event = ButtonDown(1)
    /\ \E t \in BagToSet(tasks) : t.action = "http"
    /\ display.kind = "all" /\ display.cfg = 8 /\ display.page = "home"
    /\ Len(display.images) = NUM_KEYS
    /\ display.images[1].bg = "#aa0000"
    /\ display.images[2].bg \in {"#0000aa", "#00aa00"}

(***************************************************************************)
(* C38: when the file a button's icon names does not exist or cannot be    *)
(* decoded, render_button returns an image all the same, not an error:     *)
(* the background with the label on it, the label laid out as on a button  *)
(* without icon (centered, at the full font size), not at the bottom at    *)
(* the reduced size.                                                       *)
(***************************************************************************)
\* the call found no file, or a file that is no image, where the icon
\* should be
C38_IconFails(call) ==
    /\ fn_arg.button.icon # <<>>
    /\ call.fs[join(fn_arg.config_dir, fn_arg.button.icon)].kind \in {"none", "junk"}

\* the colors the button is drawn with are hex colors
C38_ColorsParse ==
    /\ pick_background(fn_arg.button, fn_arg.defaults, fn_arg.entity_states) \in HexColors
    /\ pick_text_color(fn_arg.button, fn_arg.defaults, fn_arg.entity_states) \in HexColors

\* font_size.unwrap_or(defaults.font_size)
C38_FullSize ==
    IF fn_arg.button.font_size # 0 THEN fn_arg.button.font_size ELSE fn_arg.defaults.font_size

ReconnectInit ==
    /\ page_manager = PageManager_new(Snapshots[2].home_page)
    /\ InitFrom(2, SourceOff, MaxInputs)

ReconnectNext ==
    \/ DevDiscoverOk({"Pedal"}) \/ DevDiscoverErr \/ DevStore \/ DevAnnounce
    \/ DevReadError \/ DevClear \/ DevDisconnected
    \/ DevSleep \/ DevBackoffElapsed
    \/ FileChange({DiskToml(1)}) \/ WatchReload
    \/ LoopRecv

SpecReconnect ==
    /\ ReconnectInit /\ [][ReconnectNext]_vars
    /\ WF_vars(LoopRecv)
    /\ WF_vars(WatchReload)
    /\ WF_vars(DevSleep)
    /\ WF_vars(DevBackoffElapsed)

(***************************************************************************)
(* C39: after a reload that changes the reconnect interval, the next       *)
(* backoff wait of the device session lasts the interval of the current    *)
(* snapshot, not the interval of the snapshot the daemon started with.     *)
(***************************************************************************)
\* the session is about to discover while the store holds snapshot c
C39_AtDiscovery(c) == shared_config = c /\ dev_pc = "discover"

\* the session is in a backoff wait
C39_Waiting == dev_pc = "backoff"

\* the session is back at discovery under snapshot c before c's interval
\* has passed
C39_BackEarly(c) ==
    /\ shared_config = c
    /\ dev_pc = "discover"
    /\ dev_sleep < Snapshots[c].reconnect_interval_ms

\* as stated, for the reload to CfgFull: once the session has been at
\* discovery with CfgFull in the store, no wait after that is over before
\* CfgFull's interval has passed
C39_WaitsCurrentInterval ==
    [](C39_AtDiscovery(1) => [](C39_Waiting => []~C39_BackEarly(1)))

(***************************************************************************)
(* The shutdown of SpecStop with the watcher's blocking thread: the thread *)
(* sets the debouncer up while the daemon runs, the interrupt cancels the  *)
(* token, the watcher loop and the device session see it, run() joins them *)
(* and returns.  The watcher loop and the thread's setup are scheduled.    *)
(***************************************************************************)
ThreadInit ==
    /\ page_manager = PageManager_new(Snapshots[StartCfg].home_page)
    /\ InitThread("setup", "running", StartCfg, SourceOff, StopInputs, <<>>, NoRet)

ThreadNext == StopNext \/ ThreadWatchOk \/ ThreadWatchErr

SpecThread ==
    /\ ThreadInit /\ [][ThreadNext]_vars
    /\ WF_vars(LoopRecv)
    /\ WF_vars(RunWait)
    /\ WF_vars(RunJoined)
    /\ WF_vars(RunTimeout)
    /\ WF_vars(WatchCancelled)
    /\ WF_vars(ThreadWatchOk \/ ThreadWatchErr)

(***************************************************************************)
(* C40: after cancellation everything the config watcher started comes to  *)
(* an end: the async watch loop returns Ok, and the blocking thread that   *)
(* keeps the debouncer alive ends too, so that nothing of the watcher runs *)
(* on after run() has returned.                                            *)
(***************************************************************************)
\* the watch loop has returned
C40_LoopEnded == watch_pc = "stopped"

\* the blocking thread has returned
C40_ThreadEnded == watch_thread = "ended"

\* as stated: once the token is cancelled, the watch loop and the thread
\* come to an end
C40_WatcherTerminates == cancel ~> (C40_LoopEnded /\ C40_ThreadEnded)

===========================================================================
